---- MODULE Spec2Model ----
(***************************************************************************)
(* Transaction arbitration and value integration of the y_py bindings.     *)
(*                                                                         *)
(* The document engine (yrs) and the host runtime (CPython, pyo3) are the  *)
(* environment: an engine transaction is a record that mutations mark      *)
(* pending and that the engine commit flushes; an engine container is a    *)
(* sequence of slots; a host value is a tagged token.                      *)
(***************************************************************************)
EXTENDS Integers, Sequences, FiniteSets, TLC

\* ------------------------------------------------------------------ bounds
MaxTxns == 2
MaxHandles == 2
MaxYTypes == 6
MaxBranches == 6
MaxLen == 2
MaxSubs == 2
MaxIters == 2

Docs == {1, 2}
Keys == {1, 2}

VARIABLES
    txns,      \* every YTransactionInner ever created, in creation order
    docTxn,    \* YDocInner.txn per document: 0 = None, else index into txns
    handles,   \* every YTransaction (host object) ever created
    callback,  \* per document: the handle given to a running transact() callback, or 0
    ytypes,    \* every YArray / YMap / YText host object
    branches,  \* the engine's containers (yrs Branch), roots first; from is the
               \* shared type object a container was created for
    uaf,       \* a released engine transaction has been dereferenced
    last,      \* the last call: its kind, its result and the host error left pending
    observers, \* the subscriptions: the container observed and the transaction
               \* that changed it since the last dispatch (0 when none)
    events,    \* every event object a callback was given
    docObservers, \* per document: the callbacks observe_after_transaction registered
    afterEvents,  \* every AfterTransactionEvent a callback was given
    blocks,       \* per document: the blocks of its root sequence as updates carry them
    iters         \* every YMapIterator ever created: its map and the YTransactionInner
                  \* its engine iterator refers to

vars == <<txns, docTxn, handles, callback, ytypes, branches, uaf, last, observers, events,
          docObservers, afterEvents, blocks, iters>>

\* ------------------------------------------------------------ host values
\* A host value is [t, v]: t its concrete host type, v a small integer
\* (the number, the string's identity, the index into PyLists / PyDicts,
\* or the index of a shared type object in ytypes).
Val(t, v) == [t |-> t, v |-> v]
PyNone == Val("None", 0)
PyObj == Val("Object", 0)

\* The plain host lists and dicts the calls draw from.
PyLists == << <<Val("Int", 1), Val("Str", 1)>>,
              <<PyObj>>,
              <<Val("YType", 1)>> >>
PyDicts == << <<[k |-> 1, val |-> Val("Int", 2)]>> >>

\* isinstance(x, T): a host bool is also an int.
PyIsInstance(x, T) ==
    \/ x.t = T
    \/ x.t = "Bool" /\ T = "Int"

\* The shape CompatiblePyType::try_from gives a host value, "Err" when none.
CompatiblePyType(x) ==
    IF PyIsInstance(x, "Bool") THEN "Bool"
    ELSE IF PyIsInstance(x, "Int") THEN "Int"
    ELSE IF x.t = "None" THEN "None"
    ELSE IF PyIsInstance(x, "Float") THEN "Float"
    ELSE IF PyIsInstance(x, "Str") THEN "String"
    ELSE IF PyIsInstance(x, "List") THEN "List"
    ELSE IF PyIsInstance(x, "Dict") THEN "Dict"
    ELSE IF x.t = "YType" THEN "YType"
    ELSE "Err"

\* An engine slot is [k, t, v]: k the map key (0 in a sequence), t the
\* content kind, v its value (for "Type" the index of the nested branch).
Slot(k, t, v) == [k |-> k, t |-> t, v |-> v]

\* Any::try_from(CompatiblePyType): [err, t, v]; err = "" on success.
\* Integers of the model are below MAX_JS_NUMBER, so Int lowers to Number.
RECURSIVE AnyTryFrom(_)
AnyTryFrom(x) ==
    LET shape == CompatiblePyType(x)
        elems == IF shape = "List" THEN PyLists[x.v]
                 ELSE IF shape = "Dict" THEN [i \in 1..Len(PyDicts[x.v]) |-> PyDicts[x.v][i].val]
                 ELSE <<>>
        \* collect() stops at the first element that fails
        bad == {i \in 1..Len(elems) :
                   \/ CompatiblePyType(elems[i]) = "Err"
                   \/ AnyTryFrom(elems[i]).err # ""}
        first == CHOOSE i \in bad : \A j \in bad : i <= j
    IN  CASE shape = "Bool"   -> [err |-> "", t |-> "Bool", v |-> x.v]
          [] shape = "String" -> [err |-> "", t |-> "String", v |-> x.v]
          [] shape = "Int"    -> [err |-> "", t |-> "Number", v |-> x.v]
          [] shape = "Float"  -> [err |-> "", t |-> "Number", v |-> x.v]
          [] shape = "None"   -> [err |-> "", t |-> "Null", v |-> 0]
          [] shape \in {"List", "Dict"} ->
                IF bad = {}
                THEN [err |-> "", t |-> IF shape = "List" THEN "Array" ELSE "Map", v |-> x.v]
                ELSE IF CompatiblePyType(elems[first]) = "Err"
                     THEN [err |-> "TypeError", t |-> "", v |-> 0]
                     ELSE [err |-> AnyTryFrom(elems[first]).err, t |-> "", v |-> 0]
          [] OTHER -> [err |-> "MultipleIntegrationError", t |-> "", v |-> 0]

\* ------------------------------------------------------- engine containers
\* Array::len: the countable content of a sequence; an empty content block
\* (ItemContent::Any(vec![])) has length 0.
ArrLen(items) == Cardinality({i \in 1..Len(items) : items[i].t # "Empty"})

\* The position in items right after the index-th countable slot.
PosOf(items, index) ==
    IF index = 0 THEN 0
    ELSE CHOOSE p \in 1..Len(items) :
            /\ items[p].t # "Empty"
            /\ Cardinality({i \in 1..p : items[i].t # "Empty"}) = index

InsertAt(items, p, new) ==
    SubSeq(items, 1, p) \o new \o SubSeq(items, p + 1, Len(items))

\* The engine stores one block: at a sequence index (k = 0), or under a key,
\* where it replaces the entry the key had.
StoreSlot(items, index, k, t, v) ==
    IF k = 0
    THEN InsertAt(items, PosOf(items, index), <<Slot(0, t, v)>>)
    ELSE SelectSeq(items, LAMBDA e : e.k # k) \o <<Slot(k, t, v)>>

\* ------------------------------------------------------ value integration
\* The integration operators thread s = [y, b, err, res]: the shared type
\* objects, the engine containers, the host error indicator (what
\* err.restore left pending) and "ok", "panic" or the error returned.
\* B is the set of shared type objects that are mutably borrowed.

\* A prelim test that takes every shared type object for Preliminary.
is_prelim_any(y, h) == TRUE

\* YArray::prelim / YMap::prelim / YText::prelim, read through a borrow of
\* the object: a borrow of a mutably borrowed object panics.
is_prelim(y, h) == y[h].prelim

\* PyObjectWrapper::into_content, which ends in
\* CompatiblePyType::into_content: [res, err, t, v], t = "Type" when a new
\* nested container is to be created for the Preliminary object v.
into_content(s, x, B) ==
    LET shape == CompatiblePyType(x)
        valid == IF shape = "Err" THEN PyNone ELSE x
        err1  == IF shape = "Err" THEN "TypeError" ELSE s.err
        any   == AnyTryFrom(valid)
    IN  IF shape = "YType" /\ x.v \in B
        THEN [res |-> "panic", err |-> err1, t |-> "", v |-> 0]
        ELSE IF shape = "YType" /\ is_prelim(s.y, x.v)
        THEN [res |-> "ok", err |-> err1, t |-> "Type", v |-> x.v]
        ELSE IF any.err = ""
        THEN [res |-> "ok", err |-> err1, t |-> any.t, v |-> any.v]
        ELSE [res |-> "ok", err |-> any.err, t |-> "Empty", v |-> 0]

RECURSIVE EngineInsert(_, _, _, _, _, _, _)
RECURSIVE integrate(_, _, _, _, _)
RECURSIVE insert_multiple_at(_, _, _, _, _, _, _)
RECURSIVE MapReplay(_, _, _, _, _, _)

\* Array::insert / Array::push_back / Map::insert of the engine with a
\* PyObjectWrapper value: the engine asks the value for its content, stores
\* the block and, for a nested container, calls integrate on it.
EngineInsert(s, br, d, index, k, x, B) ==
    IF s.res # "ok" THEN s
    ELSE IF k = 0 /\ index > ArrLen(s.b[br].items) THEN [s EXCEPT !.res = "panic"]
    ELSE LET c == into_content(s, x, B)
             nb == Len(s.b) + 1
         IN  IF c.res = "panic" THEN [s EXCEPT !.res = "panic", !.err = c.err]
             ELSE IF c.t # "Type"
             THEN [s EXCEPT !.err = c.err,
                            !.b[br].items = StoreSlot(@, index, k, c.t, c.v)]
             ELSE integrate(
                    [s EXCEPT !.err = c.err,
                              !.b = Append([@ EXCEPT ![br].items = StoreSlot(@, index, k, "Type", nb)],
                                           [kind |-> s.y[c.v].kind, doc |-> s.b[br].doc, from |-> c.v, items |-> <<>>])],
                    c.v, nb, d, B)

\* An integrate that makes the object Integrated before it replays the
\* payload.
integrate_flag_first(s, h, nb, d, B) ==
    LET yt == s.y[h]
        vals == [i \in 1..Len(yt.payload) |-> yt.payload[i].val]
        s1 == [s EXCEPT !.y[h] = [kind |-> yt.kind, prelim |-> FALSE, payload |-> <<>>,
                                  branch |-> nb, doc |-> d]]
        array == insert_multiple_at(s1, nb, d, ArrLen(s.b[nb].items), vals, 1, B \cup {h})
        map == MapReplay(s1, nb, d, yt.payload, 1, B \cup {h})
    IN  CASE yt.kind = "Text" ->
                [s1 EXCEPT !.b[nb].items = @ \o [i \in 1..Len(vals) |-> Slot(0, "String", vals[i].v)]]
          [] yt.kind = "Array" ->
                IF array.res # "ok" THEN [array EXCEPT !.res = "panic"] ELSE array
          [] OTHER -> map

\* PyObjectWrapper::integrate for the Preliminary object h and its new,
\* empty engine container nb.
integrate(s, h, nb, d, B) ==
    LET yt == s.y[h]
        vals == [i \in 1..Len(yt.payload) |-> yt.payload[i].val]
        integrated == [kind |-> yt.kind, prelim |-> FALSE, payload |-> <<>>,
                       branch |-> nb, doc |-> d]
        array == insert_multiple_at(s, nb, d, ArrLen(s.b[nb].items), vals, 1, B \cup {h})
        map == MapReplay(s, nb, d, yt.payload, 1, B \cup {h})
    IN  CASE yt.kind = "Text" ->
                [s EXCEPT !.b[nb].items = @ \o [i \in 1..Len(vals) |-> Slot(0, "String", vals[i].v)],
                          !.y[h] = integrated]
          [] yt.kind = "Array" ->
                IF array.res # "ok" THEN [array EXCEPT !.res = "panic"]
                ELSE [array EXCEPT !.y[h] = integrated]
          [] OTHER ->
                IF map.res # "ok" THEN map
                ELSE [map EXCEPT !.y[h] = integrated]

\* The loop over the buffered entries of a Preliminary map.
MapReplay(s, nb, d, entries, p, B) ==
    IF s.res # "ok" \/ p > Len(entries) THEN s
    ELSE MapReplay(EngineInsert(s, nb, d, 0, entries[p].k, entries[p].val, B),
                   nb, d, entries, p + 1, B)

\* An insert_multiple_at that skips a run it cannot convert instead of
\* returning the error.
insert_multiple_at_skipping(s, dst, d, index, src, p, B) ==
    IF s.res # "ok" \/ p > Len(src) THEN s
    ELSE IF CompatiblePyType(src[p]) = "YType"
    THEN insert_multiple_at(EngineInsert(s, dst, d, index, 0, src[p], B),
                            dst, d, index + 1, src, p + 1, B)
    ELSE LET stop == {j \in p..Len(src) : CompatiblePyType(src[j]) = "YType"}
             q == IF stop = {} THEN Len(src)
                  ELSE (CHOOSE j \in stop : \A j2 \in stop : j <= j2) - 1
             bad == {j \in p..q : \/ CompatiblePyType(src[j]) = "Err"
                                  \/ AnyTryFrom(src[j]).err # ""}
             anys == [j \in 1..(q - p + 1) |->
                        Slot(0, AnyTryFrom(src[p + j - 1]).t, AnyTryFrom(src[p + j - 1]).v)]
         IN  IF bad # {}
             THEN insert_multiple_at(s, dst, d, index, src, q + 1, B)
             ELSE IF index > ArrLen(s.b[dst].items) THEN [s EXCEPT !.res = "panic"]
             ELSE insert_multiple_at(
                    [s EXCEPT !.b[dst].items = InsertAt(@, PosOf(@, index), anys)],
                    dst, d, index + Len(anys), src, q + 1, B)

\* YArray::insert_multiple_at from element p of src on: a run of elements
\* that are no shared type is converted and stored with one insert_range,
\* each shared type object with one insert.
insert_multiple_at(s, dst, d, index, src, p, B) ==
    IF s.res # "ok" \/ p > Len(src) THEN s
    ELSE IF CompatiblePyType(src[p]) = "YType"
    THEN insert_multiple_at(EngineInsert(s, dst, d, index, 0, src[p], B),
                            dst, d, index + 1, src, p + 1, B)
    ELSE LET stop == {j \in p..Len(src) : CompatiblePyType(src[j]) = "YType"}
             q == IF stop = {} THEN Len(src)
                  ELSE (CHOOSE j \in stop : \A j2 \in stop : j <= j2) - 1
             bad == {j \in p..q : \/ CompatiblePyType(src[j]) = "Err"
                                  \/ AnyTryFrom(src[j]).err # ""}
             first == CHOOSE j \in bad : \A j2 \in bad : j <= j2
             anys == [j \in 1..(q - p + 1) |->
                        Slot(0, AnyTryFrom(src[p + j - 1]).t, AnyTryFrom(src[p + j - 1]).v)]
         IN  IF bad # {}
             THEN [s EXCEPT !.res = IF CompatiblePyType(src[first]) = "Err" THEN "TypeError"
                                    ELSE AnyTryFrom(src[first]).err]
             ELSE IF index > ArrLen(s.b[dst].items) THEN [s EXCEPT !.res = "panic"]
             ELSE insert_multiple_at(
                    [s EXCEPT !.b[dst].items = InsertAt(@, PosOf(@, index), anys)],
                    dst, d, index + Len(anys), src, q + 1, B)

\* The values the local variable index of YArray::insert_multiple_at takes:
\* one [index, len] after each `index += len` and each `index += 1`, len
\* the length of dst at that point.
RECURSIVE RunningIndexes(_, _, _, _, _, _, _)
RunningIndexes(s, dst, d, index, src, p, B) ==
    IF s.res # "ok" \/ p > Len(src) THEN <<>>
    ELSE IF CompatiblePyType(src[p]) = "YType"
    THEN LET s2 == EngineInsert(s, dst, d, index, 0, src[p], B)
         IN  IF s2.res # "ok" THEN <<>>
             ELSE <<[index |-> index + 1, len |-> ArrLen(s2.b[dst].items)]>>
                  \o RunningIndexes(s2, dst, d, index + 1, src, p + 1, B)
    ELSE LET stop == {j \in p..Len(src) : CompatiblePyType(src[j]) = "YType"}
             q == IF stop = {} THEN Len(src)
                  ELSE (CHOOSE j \in stop : \A j2 \in stop : j <= j2) - 1
             bad == {j \in p..q : \/ CompatiblePyType(src[j]) = "Err"
                                  \/ AnyTryFrom(src[j]).err # ""}
             anys == [j \in 1..(q - p + 1) |->
                        Slot(0, AnyTryFrom(src[p + j - 1]).t, AnyTryFrom(src[p + j - 1]).v)]
             s2 == [s EXCEPT !.b[dst].items = InsertAt(@, PosOf(@, index), anys)]
         IN  IF bad # {} \/ index > ArrLen(s.b[dst].items) THEN <<>>
             ELSE <<[index |-> index + Len(anys), len |-> ArrLen(s2.b[dst].items)]>>
                  \o RunningIndexes(s2, dst, d, index + Len(anys), src, q + 1, B)

\* The state the integration operators start from in a call.
Store == [y |-> ytypes, b |-> branches, err |-> "", res |-> "ok"]

\* ------------------------------------------------------ transaction arbiter
\* A YTransactionInner with its engine transaction: rc counts the strong
\* references, commits the engine commits, pending tells that mutations wait
\* for the commit, auto that the commit came from Drop, failed that a
\* mutation called with it has failed.
TxnRec(d) == [doc |-> d, committed |-> FALSE, rc |-> 0, commits |-> 0,
              pending |-> FALSE, cached |-> FALSE, auto |-> FALSE, failed |-> FALSE]

\* Weak::upgrade of YDocInner.txn succeeds while a strong reference is left.
Upgrade(T, W, d) == W[d] # 0 /\ T[W[d]].rc > 0

\* YDocInner::has_transaction
has_transaction(T, W, d) == Upgrade(T, W, d) /\ ~T[W[d]].committed

\* YTransactionInner::commit: [txns, panic]. The engine commit flushes what
\* is pending and the engine transaction is released (ManuallyDrop::drop).
YTransactionInner_commit(T, i) ==
    IF ~T[i].committed
    THEN [txns |-> [T EXCEPT ![i].committed = TRUE, ![i].commits = @ + 1,
                             ![i].pending = FALSE],
          panic |-> FALSE]
    ELSE [txns |-> T, panic |-> TRUE]

\* A Drop that releases the object without the commit.
YTransactionInner_drop_only(T, i) == [T EXCEPT ![i].cached = FALSE]

\* A Drop that commits whatever the committed flag says.
YTransactionInner_drop_always(T, i) ==
    [T EXCEPT ![i].committed = TRUE, ![i].commits = @ + 1, ![i].pending = FALSE,
              ![i].cached = FALSE]

\* impl Drop for YTransactionInner
YTransactionInner_drop(T, i) ==
    LET T1 == IF ~T[i].committed
              THEN [YTransactionInner_commit(T, i).txns EXCEPT ![i].auto = TRUE]
              ELSE T
    IN  [T1 EXCEPT ![i].cached = FALSE]

\* A YTransaction object the host has freed.
Freed == [inner |-> 0, committed |-> FALSE, alive |-> FALSE]

\* One strong reference (Rc) to transaction i is released.
RcRelease(T, i) ==
    LET T1 == [T EXCEPT ![i].rc = @ - 1]
    IN  IF T1[i].rc = 0 THEN YTransactionInner_drop(T1, i) ELSE T1

\* A begin_transaction that opens an engine transaction on every call.
begin_transaction_fresh(T, W, d) ==
    [txns |-> Append(T, [TxnRec(d) EXCEPT !.rc = 1]),
     docTxn |-> [W EXCEPT ![d] = Len(T) + 1],
     idx |-> Len(T) + 1]

\* A begin_transaction that hands out the transaction the document
\* remembers, committed or not.
begin_transaction_reuse(T, W, d) ==
    IF Upgrade(T, W, d)
    THEN [txns |-> [T EXCEPT ![W[d]].rc = @ + 1], docTxn |-> W, idx |-> W[d]]
    ELSE [txns |-> Append(T, [TxnRec(d) EXCEPT !.rc = 1]),
          docTxn |-> [W EXCEPT ![d] = Len(T) + 1],
          idx |-> Len(T) + 1]

\* YDocInner::begin_transaction: [txns, docTxn, idx], the caller holding one
\* strong reference to transaction idx.
begin_transaction(T, W, d) ==
    IF Upgrade(T, W, d) /\ ~T[W[d]].committed
    THEN [txns |-> [T EXCEPT ![W[d]].rc = @ + 1], docTxn |-> W, idx |-> W[d]]
    ELSE [txns |-> Append(T, [TxnRec(d) EXCEPT !.rc = 1]),
          docTxn |-> [W EXCEPT ![d] = Len(T) + 1],
          idx |-> Len(T) + 1]

\* YDocInner::commit_transaction: [txns, docTxn, panic]
commit_transaction(T, W, d) ==
    LET c == YTransactionInner_commit(T, W[d])
    IN  IF Upgrade(T, W, d)
        THEN IF c.panic THEN [txns |-> T, docTxn |-> W, panic |-> TRUE]
             ELSE [txns |-> c.txns, docTxn |-> [W EXCEPT ![d] = 0], panic |-> FALSE]
        ELSE [txns |-> T, docTxn |-> [W EXCEPT ![d] = 0], panic |-> FALSE]

\* YDocInner::transact_mut: an engine transaction is opened without a look
\* at YDocInner.txn, the closure runs in it, and the YTransactionInner is
\* dropped on return. The engine refuses a second mutable transaction of
\* a document with a panic.
transact_mut(T, W, d) ==
    IF \E i \in 1..Len(T) : T[i].doc = d /\ ~T[i].committed
    THEN [txns |-> T, docTxn |-> W, res |-> "panic"]
    ELSE [txns |-> YTransactionInner_drop(Append(T, TxnRec(d)), Len(T) + 1),
          docTxn |-> W, res |-> "ok"]

\* A guard_store that refuses while a transaction object is referenced,
\* committed or not.
guard_store_referenced(T, W, d) == IF Upgrade(T, W, d) THEN "AssertionError" ELSE "ok"

\* YDoc::guard_store, the check a root-type lookup (get_array, get_map,
\* get_text) starts with.
guard_store(T, W, d) == IF has_transaction(T, W, d) THEN "AssertionError" ELSE "ok"

\* YTransaction::new: the handle copies the committed flag once.
YTransaction_new(T, i) == [inner |-> i, committed |-> T[i].committed, alive |-> TRUE]

\* What a call left behind: op is "mutation" for a container mutation and
\* "call" for every other call.
Call(res, err) == [op |-> "call", res |-> res, err |-> err]

Alive(h) == h \in 1..Len(handles) /\ handles[h].alive
Running == last.res # "crash"
\* A new transaction or handle stays within the model's bounds.
Room(d) == Len(handles) < MaxHandles /\ (has_transaction(txns, docTxn, d) \/ Len(txns) < MaxTxns)
TxnRoom(d) == has_transaction(txns, docTxn, d) \/ Len(txns) < MaxTxns

\* ------------------------------------------------------------------ events
\* A subscription is [b, by]: the engine container observed and the
\* transactions that changed it and have not committed since.
Touch(O, bs, i) == {[o EXCEPT !.by = IF o.b \in bs THEN @ \cup {i} ELSE @] : o \in O}

\* The field of an event that holds the changes: keys for a map, delta for
\* an array or a text.
ChangeField(kind) == IF kind = "Map" THEN "keys" ELSE "delta"
EventFields == {"target", "delta", "keys"}

\* YArrayEvent::new / YMapEvent::new / YTextEvent::new: the raw pointers to
\* the engine event and to the engine transaction i, with empty caches.
\* cache[f] is 0 for None, else the identity of the materialized value;
\* computed[f] counts how often f was built from the engine event.
YEvent_new(b, i) ==
    [kind |-> branches[b].kind, target |-> b, txn |-> i,
     cache |-> [f \in EventFields |-> 0],
     computed |-> [f \in EventFields |-> 0]]

\* An accessor that builds its value from the engine event on every access.
YEvent_get_uncached(e, f) ==
    [e EXCEPT !.computed[f] = @ + 1, !.cache[f] = e.computed[f] + 1]

\* YArrayEvent::delta / YMapEvent::keys / YTextEvent::delta / target: the
\* cached value when there is one, else the value is built from the engine
\* event (and the engine transaction) and cached.
YEvent_get(e, f) ==
    IF e.cache[f] # 0 THEN e
    ELSE [e EXCEPT !.computed[f] = @ + 1, !.cache[f] = e.computed[f] + 1]

RECURSIVE Sorted(_)
Sorted(S) ==
    IF S = {} THEN <<>>
    ELSE LET m == CHOOSE x \in S : \A y \in S : x <= y
         IN  <<m>> \o Sorted(S \ {m})

\* The engine commit of the transactions that are committed in T2 and were
\* not in T calls the callback of every subscription they changed, in the
\* order of the containers, with a new event object; acc tells that the
\* callback reads the changes of its event. [observers, events]
Dispatch(T, T2, O, E, acc) ==
    LET fired == {i \in 1..Len(T2) : T2[i].committed /\ (i <= Len(T) => ~T[i].committed)}
        hit == Sorted({o.b : o \in {o2 \in O : o2.by \cap fired # {}}})
        by(b) == CHOOSE i \in fired : \E o \in O : o.b = b /\ i \in o.by
        ev(b) == IF acc THEN YEvent_get(YEvent_new(b, by(b)), ChangeField(branches[b].kind))
                 ELSE YEvent_new(b, by(b))
    IN  [observers |-> {[o EXCEPT !.by = @ \ fired] : o \in O},
         events |-> E \o [j \in 1..Len(hit) |-> ev(hit[j])]]

\* The fields of an AfterTransactionEvent.
AfterFields == {"before_state", "after_state", "delete_set", "update"}

\* AfterTransactionEvent::new for the commit of transaction i of document d
\* and the k-th callback of d: every field is encoded and copied into a
\* host bytes object at once; id is the identity of the objects made.
AfterTransactionEvent_new(i, d, k, id) ==
    [doc |-> d, txn |-> i, sub |-> k, fields |-> [f \in AfterFields |-> id]]

RECURSIVE AfterDispatch_explicit_only(_, _, _, _)
RECURSIVE AfterDispatch(_, _, _, _)

\* A dispatch that skips the commits made by the release of a transaction.
AfterDispatch_explicit_only(T2, N, A, is) ==
    IF is = <<>> THEN A
    ELSE LET i == Head(is)
             d == T2[i].doc
         IN  AfterDispatch(
                T2, N,
                A \o [k \in 1..(IF T2[i].auto THEN 0 ELSE N[d]) |->
                         AfterTransactionEvent_new(i, d, k, Len(A) + k)],
                Tail(is))

\* The closure observe_after_transaction subscribes: the engine commit of
\* each transaction of is calls every callback of its document with a new
\* event object. N are the callbacks per document, A the events so far.
AfterDispatch(T2, N, A, is) ==
    IF is = <<>> THEN A
    ELSE LET i == Head(is)
             d == T2[i].doc
         IN  AfterDispatch(
                T2, N,
                A \o [k \in 1..N[d] |-> AfterTransactionEvent_new(i, d, k, Len(A) + k)],
                Tail(is))

\* The callbacks the commits of a step run: T2 and O are the transactions
\* and the subscriptions the step leaves. A callback subscribes nothing.
Callbacks(T2, O) ==
    /\ \E acc \in BOOLEAN :
          LET f == Dispatch(txns, T2, O, events, acc)
          IN  observers' = f.observers /\ events' = f.events
    /\ afterEvents' = AfterDispatch(
          T2, docObservers, afterEvents,
          Sorted({i \in 1..Len(T2) : T2[i].committed /\ (i <= Len(txns) => ~txns[i].committed)}))
    /\ docObservers' = docObservers

\* The root containers the documents start with: an array, a map and a
\* text of document 1, an array of document 2.
RootKinds == <<"Array", "Map", "Text", "Array">>
RootDocs == <<1, 1, 1, 2>>

Init ==
    /\ txns = <<>>
    /\ docTxn = [d \in Docs |-> 0]
    /\ handles = <<>>
    /\ callback = [d \in Docs |-> 0]
    /\ ytypes = [c \in 1..Len(RootKinds) |->
                    [kind |-> RootKinds[c], prelim |-> FALSE, payload |-> <<>>,
                     branch |-> c, doc |-> RootDocs[c]]]
    /\ branches = [c \in 1..Len(RootKinds) |->
                      [kind |-> RootKinds[c], doc |-> RootDocs[c], from |-> c, items |-> <<>>]]
    /\ uaf = FALSE
    /\ last = Call("ok", "")
    /\ observers = {}
    /\ events = <<>>
    /\ docObservers = [d \in Docs |-> 0]
    /\ afterEvents = <<>>
    /\ blocks = [d \in Docs |-> [items |-> {}, deleted |-> {}]]
    /\ iters = <<>>

\* YDoc::begin_transaction. While transact() runs its callback the YDoc
\* object is mutably borrowed and every method of it fails.
Begin(d) ==
    /\ Running /\ Room(d)
    /\ IF callback[d] # 0
       THEN /\ last' = Call("BorrowError", "")
            /\ UNCHANGED <<txns, docTxn, handles>>
       ELSE LET r == begin_transaction(txns, docTxn, d)
            IN  /\ txns' = r.txns
                /\ docTxn' = r.docTxn
                /\ handles' = Append(handles, YTransaction_new(r.txns, r.idx))
                /\ last' = Call("ok", "")
    /\ UNCHANGED <<callback, ytypes, branches, uaf, observers, events, docObservers, afterEvents, blocks, iters>>

\* YTransaction::commit: [txns, handles, res]
YTransaction_commit(T, H, h) ==
    LET c == YTransactionInner_commit(T, H[h].inner)
    IN  IF ~H[h].committed
        THEN IF c.panic THEN [txns |-> T, handles |-> H, res |-> "panic"]
             ELSE [txns |-> c.txns, handles |-> [H EXCEPT ![h].committed = TRUE], res |-> "ok"]
        ELSE [txns |-> T, handles |-> H, res |-> "AlreadyCommitted"]

Commit(h) ==
    /\ Running /\ Alive(h)
    /\ LET r == YTransaction_commit(txns, handles, h)
       IN  /\ txns' = r.txns
           /\ handles' = r.handles
           /\ last' = Call(r.res, "")
           /\ Callbacks(r.txns, observers)
    /\ UNCHANGED <<docTxn, callback, ytypes, branches, uaf, blocks, iters>>

\* An __exit__ that returns true whatever the body did.
YTransaction_exit_true(raised) == TRUE

\* The bool YTransaction::__exit__ returns after its commit
\* (exception_type.is_none()): true tells the host to drop the exception
\* the body raised.
YTransaction_exit(raised) == ~raised

\* YTransaction::__exit__ at the end of a with-block whose body raised an
\* exception or did not: the error of the commit, else "reraised" when the
\* exception of the body goes on, else "ok".
Exit(h, raised) ==
    /\ Running /\ Alive(h)
    /\ LET r == YTransaction_commit(txns, handles, h)
       IN  /\ txns' = r.txns
           /\ handles' = r.handles
           /\ last' = Call(IF r.res = "ok" /\ raised /\ ~YTransaction_exit(raised)
                           THEN "reraised" ELSE r.res, "")
           /\ Callbacks(r.txns, observers)
    /\ UNCHANGED <<docTxn, callback, ytypes, branches, uaf, blocks, iters>>

\* The host releases a YTransaction object; the arguments of a running
\* transact() callback keep theirs alive.
Drop(h) ==
    /\ Running /\ Alive(h)
    /\ \A d \in Docs : callback[d] # h
    /\ handles' = [handles EXCEPT ![h] = Freed]
    /\ txns' = RcRelease(txns, handles[h].inner)
    /\ Callbacks(RcRelease(txns, handles[h].inner), observers)
    /\ last' = Call("ok", "")
    /\ UNCHANGED <<docTxn, callback, ytypes, branches, uaf, blocks, iters>>

\* YDoc::transact up to the call of the callback
TransactCall(d) ==
    /\ Running /\ Room(d)
    /\ IF callback[d] # 0
       THEN /\ last' = Call("BorrowError", "")
            /\ UNCHANGED <<txns, docTxn, handles, callback>>
       ELSE LET r == begin_transaction(txns, docTxn, d)
            IN  /\ txns' = r.txns
                /\ docTxn' = r.docTxn
                /\ handles' = Append(handles, YTransaction_new(r.txns, r.idx))
                /\ callback' = [callback EXCEPT ![d] = Len(handles) + 1]
                /\ last' = Call("called", "")
    /\ UNCHANGED <<ytypes, branches, uaf, observers, events, docObservers, afterEvents, blocks, iters>>

\* YDoc::transact after the callback returned: commit_transaction, then the
\* argument tuple is released; the callback may have kept the handle.
TransactReturn(d, keep) ==
    /\ Running /\ callback[d] # 0
    /\ LET h == callback[d]
           r == commit_transaction(txns, docTxn, d)
       IN  /\ docTxn' = r.docTxn
           /\ handles' = IF keep THEN handles ELSE [handles EXCEPT ![h] = Freed]
           /\ txns' = IF keep THEN r.txns ELSE RcRelease(r.txns, handles[h].inner)
           /\ last' = Call(IF r.panic THEN "panic" ELSE "ok", "")
           /\ Callbacks(IF keep THEN r.txns ELSE RcRelease(r.txns, handles[h].inner), observers)
    /\ callback' = [callback EXCEPT ![d] = 0]
    /\ UNCHANGED <<ytypes, branches, uaf, blocks, iters>>

\* WithTransaction::with_transaction under a read such as YArray::__len__
\* that a callback makes while the commit of transaction i of document d
\* runs it: "ok" or "panic". via is "commit" for YTransaction::commit, which
\* holds the borrow_mut of the transaction, "release" for the Drop of the
\* last reference, and "transact" for YDoc::transact, which holds the
\* borrow_mut of the document. get_transaction borrows the document, and
\* begin_transaction borrows the transaction it upgrades to read the
\* committed flag, or opens an engine transaction, which the engine refuses
\* while the committing one is not released.
with_transaction_reentrant(T, W, d, i, via) ==
    IF via = "transact" THEN "panic"
    ELSE IF Upgrade(T, W, d) /\ W[d] = i THEN "panic"
    ELSE IF Upgrade(T, W, d) /\ ~T[W[d]].committed THEN "ok"
    ELSE IF \E j \in 1..Len(T) : T[j].doc = d /\ ~T[j].committed THEN "panic"
    ELSE "ok"

\* What a commit whose callbacks read left behind: read is the result of
\* the read.
Reentered(res, read) == [op |-> "callback", res |-> res, err |-> "", read |-> read]

\* A callback is subscribed that the commit of transaction i calls.
Listening(i) ==
    \/ docObservers[txns[i].doc] > 0
    \/ \E o \in observers : i \in o.by

\* YTransaction::commit, also at the end of a with-block, with callbacks
\* that read an Integrated container of the document.
CommitReading(h) ==
    /\ Running /\ Alive(h)
    /\ LET r == YTransaction_commit(txns, handles, h)
           i == handles[h].inner
       IN  /\ r.res = "ok" /\ Listening(i)
           /\ txns' = r.txns
           /\ handles' = r.handles
           /\ last' = Reentered(r.res, with_transaction_reentrant(txns, docTxn, txns[i].doc, i, "commit"))
           /\ Callbacks(r.txns, observers)
    /\ UNCHANGED <<docTxn, callback, ytypes, branches, uaf, blocks, iters>>

\* The release of the last YTransaction object of an uncommitted
\* transaction, with callbacks that read.
DropReading(h) ==
    /\ Running /\ Alive(h)
    /\ \A d \in Docs : callback[d] # h
    /\ LET i == handles[h].inner
           T1 == [txns EXCEPT ![i].rc = @ - 1]
       IN  /\ txns[i].rc = 1 /\ ~txns[i].committed /\ Listening(i)
           /\ handles' = [handles EXCEPT ![h] = Freed]
           /\ txns' = RcRelease(txns, i)
           /\ Callbacks(RcRelease(txns, i), observers)
           /\ last' = Reentered("ok", with_transaction_reentrant(T1, docTxn, txns[i].doc, i, "release"))
    /\ UNCHANGED <<docTxn, callback, ytypes, branches, uaf, blocks, iters>>

\* YDoc::transact after the callback returned, with callbacks subscribed
\* that read during commit_transaction.
TransactReturnReading(d, keep) ==
    /\ Running /\ callback[d] # 0
    /\ LET h == callback[d]
           r == commit_transaction(txns, docTxn, d)
       IN  /\ has_transaction(txns, docTxn, d) /\ Listening(docTxn[d])
           /\ docTxn' = r.docTxn
           /\ handles' = IF keep THEN handles ELSE [handles EXCEPT ![h] = Freed]
           /\ txns' = IF keep THEN r.txns ELSE RcRelease(r.txns, handles[h].inner)
           /\ last' = Reentered("ok", with_transaction_reentrant(txns, docTxn, d, docTxn[d], "transact"))
           /\ Callbacks(IF keep THEN r.txns ELSE RcRelease(r.txns, handles[h].inner), observers)
    /\ callback' = [callback EXCEPT ![d] = 0]
    /\ UNCHANGED <<ytypes, branches, uaf, blocks, iters>>

\* -------------------------------------------------------- reads and updates
Integrated(c) == c \in 1..Len(ytypes) /\ ~ytypes[c].prelim

\* A with_transaction that opens an engine transaction of its own.
with_transaction_fresh(T, W, d) ==
    LET r == begin_transaction_fresh(T, W, d)
    IN  [txns |-> RcRelease(r.txns, r.idx), docTxn |-> r.docTxn]

\* A with_transaction that keeps the strong reference it was given.
with_transaction_held(T, W, d) ==
    LET r == begin_transaction(T, W, d)
    IN  [txns |-> r.txns, docTxn |-> r.docTxn]

\* WithTransaction::with_transaction under a read such as YArray::__len__:
\* the strong reference begin_transaction returned is released on return.
with_transaction(T, W, d) ==
    LET r == begin_transaction(T, W, d)
    IN  [txns |-> RcRelease(r.txns, r.idx), docTxn |-> r.docTxn]

\* YArray::__len__ / YMap::__len__
Read(c) ==
    /\ Running /\ c \in 1..Len(ytypes)
    /\ IF ytypes[c].prelim
       THEN /\ last' = Call("ok", "")
            /\ UNCHANGED <<txns, docTxn, observers, events, docObservers, afterEvents>>
       ELSE LET r == with_transaction(txns, docTxn, ytypes[c].doc)
            IN  /\ TxnRoom(ytypes[c].doc)
                /\ txns' = r.txns
                /\ docTxn' = r.docTxn
                /\ Callbacks(r.txns, observers)
                /\ last' = Call("ok", "")
    /\ UNCHANGED <<handles, callback, ytypes, branches, uaf, blocks, iters>>

\* YArray::to_json / YArray::__str__ / YText::__str__: the content of the
\* container, read in the transaction with_transaction gives.
ToJson(c) ==
    /\ Running /\ c \in 1..Len(ytypes)
    /\ IF ytypes[c].prelim
       THEN /\ last' = [op |-> "read", res |-> "ok", err |-> "",
                        val |-> [j \in 1..Len(ytypes[c].payload) |-> ytypes[c].payload[j].val]]
            /\ UNCHANGED <<txns, docTxn, observers, events, docObservers, afterEvents>>
       ELSE LET r == with_transaction(txns, docTxn, ytypes[c].doc)
            IN  /\ TxnRoom(ytypes[c].doc)
                /\ txns' = r.txns
                /\ docTxn' = r.docTxn
                /\ Callbacks(r.txns, observers)
                /\ last' = [op |-> "read", res |-> "ok", err |-> "",
                            val |-> SelectSeq(branches[ytypes[c].branch].items,
                                              LAMBDA e : e.t # "Empty")]
    /\ UNCHANGED <<handles, callback, ytypes, branches, uaf, blocks, iters>>

\* YMap::get (item = FALSE) / YMap::__getitem__ (item = TRUE): both start
\* with with_transaction, whose get_doc unwraps the document of the map;
\* a Preliminary map has none (doc: None), and the unwrap panics.
MapGet(c, key, item) ==
    /\ Running /\ c \in 1..Len(ytypes) /\ ytypes[c].kind = "Map"
    /\ IF ytypes[c].doc = 0
       THEN /\ last' = [op |-> "read", res |-> "panic", err |-> "", val |-> <<>>]
            /\ UNCHANGED <<txns, docTxn, observers, events, docObservers, afterEvents>>
       ELSE LET r == with_transaction(txns, docTxn, ytypes[c].doc)
                found == SelectSeq(branches[ytypes[c].branch].items, LAMBDA e : e.k = key)
            IN  /\ TxnRoom(ytypes[c].doc)
                /\ txns' = r.txns
                /\ docTxn' = r.docTxn
                /\ Callbacks(r.txns, observers)
                /\ last' = [op |-> "read",
                            res |-> IF found = <<>> /\ item THEN "KeyError" ELSE "ok",
                            err |-> "", val |-> found]
    /\ UNCHANGED <<handles, callback, ytypes, branches, uaf, blocks, iters>>

\* PySlice::indices(len) for a step that is not 0: start and stop as the
\* host clamps them, [start, stop].
Clamp(i, len, step) ==
    LET j == IF i < 0 THEN i + len ELSE i
    IN  IF j < 0 THEN (IF step < 0 THEN 0 - 1 ELSE 0)
        ELSE IF j >= len THEN (IF step < 0 THEN len - 1 ELSE len)
        ELSE j

PySliceIndices(start, stop, step, len) ==
    [start |-> Clamp(start, len, step), stop |-> Clamp(stop, len, step)]

Reverse(v) == [j \in 1..Len(v) |-> v[Len(v) + 1 - j]]

\* Iterator::step_by over v: the first element and every step-th after it.
StepBy(v, step) == [j \in 1..((Len(v) + step - 1) \div step) |-> v[(j - 1) * step + 1]]

\* The Preliminary arm of YArray::get_range: [res, val]. arr[a..b] panics
\* when a > b or b is behind the end.
get_range_prelim(v, start, stop, step) ==
    LET a == IF step < 0 THEN stop + 1 ELSE start
        b == IF step < 0 THEN start + 1 ELSE stop
        part == SubSeq(v, a + 1, b)
    IN  IF a > b \/ b > Len(v) THEN [res |-> "panic", val |-> <<>>]
        ELSE [res |-> "ok",
              val |-> IF step < 0 THEN StepBy(Reverse(part), 0 - step) ELSE StepBy(part, step)]

\* The Integrated arm of YArray::get_range: the elements are enumerated
\* from the front, skip(a), step_by, and taken while their index is below
\* b; for a step below 0 the result is reversed at the end.
get_range_integrated(v, start, stop, step) ==
    LET a == IF step < 0 THEN stop + 1 ELSE start
        b == IF step < 0 THEN start + 1 ELSE stop
        rest == SubSeq(v, a + 1, Len(v))
        step1 == IF step < 0 THEN 0 - step ELSE step
        idx == StepBy([j \in 1..Len(rest) |-> a + j - 1], step1)
        kept == SelectSeq(idx, LAMBDA i : i < b)
        taken == [j \in 1..Len(kept) |-> v[kept[j] + 1]]
    IN  [res |-> "ok", val |-> IF step < 0 THEN Reverse(taken) ELSE taken]

\* The root array of document d, which a remote update appends to.
Root(d) == CHOOSE b \in 1..Len(branches) :
              branches[b].doc = d /\ branches[b].kind = "Array"
                 /\ \A b2 \in 1..Len(branches) :
                       branches[b2].doc = d /\ branches[b2].kind = "Array" => b <= b2
ApplyRemote(B, d) ==
    [B EXCEPT ![Root(d)].items = @ \o <<Slot(0, "Number", 1)>>]

\* encode_state_vector(doc) / encode_state_as_update(doc, vector)
Encode(d) ==
    /\ Running
    /\ IF callback[d] # 0
       THEN /\ last' = Call("BorrowError", "")
            /\ UNCHANGED <<txns, docTxn, observers, events, docObservers, afterEvents>>
       ELSE LET r == with_transaction(txns, docTxn, d)
            IN  /\ TxnRoom(d)
                /\ txns' = r.txns
                /\ docTxn' = r.docTxn
                /\ Callbacks(r.txns, observers)
                /\ last' = Call("ok", "")
    /\ UNCHANGED <<handles, callback, ytypes, branches, uaf, blocks, iters>>

\* apply_update(doc, diff): the update is applied in the transaction
\* begin_transaction gives, which is released on return.
ApplyUpdate(d) ==
    /\ Running
    /\ Len(branches[Root(d)].items) < MaxLen
    /\ IF callback[d] # 0
       THEN /\ last' = Call("BorrowError", "")
            /\ UNCHANGED <<txns, docTxn, branches, observers, events, docObservers, afterEvents>>
       ELSE LET r == begin_transaction(txns, docTxn, d)
            IN  /\ TxnRoom(d)
                /\ txns' = RcRelease([r.txns EXCEPT ![r.idx].pending = TRUE], r.idx)
                /\ docTxn' = r.docTxn
                /\ branches' = ApplyRemote(branches, d)
                /\ Callbacks(RcRelease([r.txns EXCEPT ![r.idx].pending = TRUE], r.idx),
                             Touch(observers, {Root(d)}, r.idx))
                /\ last' = Call("ok", "")
    /\ UNCHANGED <<handles, callback, ytypes, uaf, blocks, iters>>

\* YDoc::get_text / get_array / get_map / get_xml_element / get_xml_text /
\* get_xml_fragment of document d: guard_store, then the engine hands out
\* the root container. The methods take &mut self, which the host refuses
\* while transact runs its callback.
GetRoot(d) ==
    /\ Running
    /\ last' = [op |-> "lookup",
                res |-> IF callback[d] # 0 THEN "BorrowError" ELSE guard_store(txns, docTxn, d),
                err |-> "", val |-> d]
    /\ UNCHANGED <<txns, docTxn, handles, callback, ytypes, branches, uaf, observers, events,
                   docObservers, afterEvents, blocks, iters>>

\* A call of YDocInner::transact_mut with a closure that reads.
TransactMut(d) ==
    /\ Running
    /\ (\E i \in 1..Len(txns) : txns[i].doc = d /\ ~txns[i].committed) \/ Len(txns) < MaxTxns
    /\ LET r == transact_mut(txns, docTxn, d)
       IN  /\ txns' = r.txns
           /\ docTxn' = r.docTxn
           /\ Callbacks(r.txns, observers)
           /\ last' = Call(r.res, "")
    /\ UNCHANGED <<handles, callback, ytypes, branches, uaf, blocks, iters>>

\* YTransaction::state_vector_v1 and YTransaction::diff_v1 read the engine
\* transaction without looking at the committed flag. After the commit the
\* engine transaction is released and the read is undefined: it returns
\* or the process dies.
StateVectorV1(h, outcome) ==
    /\ Running /\ Alive(h)
    /\ IF txns[handles[h].inner].committed
       THEN /\ uaf' = TRUE
            /\ last' = Call(outcome, "")
       ELSE /\ outcome = "ok"
            /\ uaf' = uaf
            /\ last' = Call("ok", "")
    /\ UNCHANGED <<txns, docTxn, handles, callback, ytypes, branches, observers, events, docObservers, afterEvents, blocks, iters>>

DiffV1(h, outcome) ==
    /\ Running /\ Alive(h)
    /\ IF txns[handles[h].inner].committed
       THEN /\ uaf' = TRUE
            /\ last' = Call(outcome, "")
       ELSE /\ outcome = "ok"
            /\ uaf' = uaf
            /\ last' = Call("ok", "")
    /\ UNCHANGED <<txns, docTxn, handles, callback, ytypes, branches, observers, events, docObservers, afterEvents, blocks, iters>>

\* YTransaction::apply_v1: after the commit the update is applied through
\* the released engine transaction: the document is written or not, or the
\* process dies.
ApplyV1(h, outcome, written) ==
    /\ Running /\ Alive(h)
    /\ LET i == handles[h].inner
           d == txns[i].doc
       IN  /\ Len(branches[Root(d)].items) < MaxLen
           /\ IF txns[i].committed
              THEN /\ uaf' = TRUE
                   /\ outcome = "crash" => ~written
                   /\ branches' = IF written THEN ApplyRemote(branches, d) ELSE branches
                   /\ txns' = txns
                   /\ observers' = observers
                   /\ last' = Call(outcome, "")
              ELSE /\ outcome = "ok" /\ written
                   /\ uaf' = uaf
                   /\ branches' = ApplyRemote(branches, d)
                   /\ txns' = [txns EXCEPT ![i].pending = TRUE]
                   /\ observers' = Touch(observers, {Root(d)}, i)
                   /\ last' = Call("ok", "")
    /\ UNCHANGED <<docTxn, handles, callback, ytypes, events, docObservers, afterEvents, blocks, iters>>

\* YTransaction::before_state (YTransactionInner::before_state): the first
\* call reads the engine transaction, later calls return the cached value.
BeforeState(h, outcome) ==
    /\ Running /\ Alive(h)
    /\ LET i == handles[h].inner
       IN  IF txns[i].cached
           THEN /\ outcome = "ok"
                /\ UNCHANGED <<txns, uaf>>
                /\ last' = Call("ok", "")
           ELSE IF txns[i].committed
           THEN /\ uaf' = TRUE
                /\ txns' = IF outcome = "ok" THEN [txns EXCEPT ![i].cached = TRUE] ELSE txns
                /\ last' = Call(outcome, "")
           ELSE /\ outcome = "ok"
                /\ uaf' = uaf
                /\ txns' = [txns EXCEPT ![i].cached = TRUE]
                /\ last' = Call("ok", "")
    /\ UNCHANGED <<docTxn, handles, callback, ytypes, branches, observers, events, docObservers, afterEvents, blocks, iters>>

\* YArray::observe / YMap::observe / YText::observe, for a subscription taken
\* while no transaction has changes pending and the container has none yet.
\* YMap::observe starts with get_doc, which unwraps the document of the
\* map and panics when there is none.
Observe(c) ==
    /\ Running /\ c \in 1..Len(ytypes)
    /\ \A i \in 1..Len(txns) : ~txns[i].pending
    /\ IF ytypes[c].kind = "Map" /\ ytypes[c].doc = 0
       THEN /\ observers' = observers
            /\ last' = Call("panic", "")
       ELSE IF ytypes[c].prelim
       THEN /\ observers' = observers
            /\ last' = Call("PreliminaryObservationException", "")
       ELSE /\ \A o \in observers : o.b # ytypes[c].branch
            /\ observers' = observers \cup {[b |-> ytypes[c].branch, by |-> {}]}
            /\ last' = Call("ok", "")
    /\ UNCHANGED <<txns, docTxn, handles, callback, ytypes, branches, uaf, events, docObservers, afterEvents, blocks, iters>>

\* The getters target, delta and keys of an event object the callback has
\* kept. The callback has returned, so the engine event is gone and the
\* engine transaction is released: a getter whose value is not cached reads
\* both through its raw pointers, which is undefined: it returns a value,
\* which it caches, or the process dies.
EventGet(e, f, outcome) ==
    /\ Running /\ e \in 1..Len(events)
    /\ f \in {"target", ChangeField(events[e].kind)}
    /\ LET new == YEvent_get(events[e], f)
       IN  IF new = events[e]
           THEN /\ outcome = "ok"
                /\ UNCHANGED <<events, uaf>>
                /\ last' = [op |-> "event", res |-> "ok", err |-> "",
                            val |-> events[e].cache[f], cached |-> TRUE]
           ELSE /\ uaf' = TRUE
                /\ events' = IF outcome = "ok" THEN [events EXCEPT ![e] = new] ELSE events
                /\ last' = [op |-> "event", res |-> outcome, err |-> "",
                            val |-> IF outcome = "ok" THEN new.cache[f] ELSE 0,
                            cached |-> FALSE]
    /\ UNCHANGED <<txns, docTxn, handles, callback, ytypes, branches, observers,
                   docObservers, afterEvents, blocks, iters>>

\* YDoc::observe_after_transaction: the engine subscribes the callback
\* under a mutable borrow of the document store, which an engine transaction
\* that is not released holds: the unwrap of the refusal panics.
ObserveAfter(d) ==
    /\ Running /\ docObservers[d] < MaxSubs
    /\ IF callback[d] # 0
       THEN /\ last' = Call("BorrowError", "")
            /\ docObservers' = docObservers
       ELSE IF \E i \in 1..Len(txns) : txns[i].doc = d /\ ~txns[i].committed
       THEN /\ last' = Call("panic", "")
            /\ docObservers' = docObservers
       ELSE /\ last' = Call("ok", "")
            /\ docObservers' = [docObservers EXCEPT ![d] = @ + 1]
    /\ UNCHANGED <<txns, docTxn, handles, callback, ytypes, branches, uaf, observers, events,
                   afterEvents, blocks, iters>>

\* The getters before_state, after_state, delete_set and get_update of an
\* AfterTransactionEvent: a new reference to the object the event holds.
AfterGet(e, f) ==
    /\ Running /\ e \in 1..Len(afterEvents) /\ f \in AfterFields
    /\ last' = [op |-> "after", res |-> "ok", err |-> "", val |-> afterEvents[e].fields[f]]
    /\ UNCHANGED <<txns, docTxn, handles, callback, ytypes, branches, uaf, observers, events,
                   docObservers, afterEvents, blocks, iters>>

\* ---------------------------------------------------------------- updates
\* What the engine keeps of the root sequence of a document: a block per
\* inserted element, named by the client that made it and a clock, with
\* the block it was inserted behind, and the names of the deleted blocks.
\* A document is its own client. The order among blocks inserted behind
\* the same block is the engine's choice: here the later clock first.
Start == <<0, 0>>

Max(S) == CHOOSE n \in S : \A m \in S : m <= n

Before(x, y) == x.id[2] > y.id[2] \/ (x.id[2] = y.id[2] /\ x.id[1] <= y.id[1])

RECURSIVE Walk(_, _)
Walk(I, kids) ==
    IF kids = {} THEN <<>>
    ELSE LET x == CHOOSE x \in kids : \A y \in kids : Before(x, y)
         IN  <<x.id>> \o Walk(I, {y \in I : y.left = x.id}) \o Walk(I, kids \ {x})

\* The names of all blocks of a store, in document order.
Order(st) == Walk(st.items, {x \in st.items : x.left = Start})

\* The elements a read of the root sequence returns.
Visible(st) == SelectSeq(Order(st), LAMBDA id : id \notin st.deleted)

\* YArray::insert of an element at index into the root sequence of d, as
\* the update functions see it: a block of client d behind the element
\* that stands before index.
LocalInsert(d, index) ==
    LET st == blocks[d]
        clock == Max({x.id[2] : x \in st.items} \cup {0}) + 1
        left == IF index = 0 THEN Start ELSE Visible(st)[index]
    IN  /\ Running /\ index \in 0..Len(Visible(st))
        /\ Cardinality(blocks[1].items \cup blocks[2].items) <= MaxLen
        /\ blocks' = [blocks EXCEPT ![d].items = @ \cup {[id |-> <<d, clock>>, left |-> left]}]
        /\ last' = Call("ok", "")
        /\ UNCHANGED <<txns, docTxn, handles, callback, ytypes, branches, uaf, observers, events,
                       docObservers, afterEvents, iters>>

\* YArray::delete of the element at index of the root sequence of d: the
\* block stays and its name joins the deletions.
LocalDelete(d, index) ==
    LET st == blocks[d]
    IN  /\ Running /\ index \in 0..(Len(Visible(st)) - 1)
        /\ blocks' = [blocks EXCEPT ![d].deleted = @ \cup {Visible(st)[index + 1]}]
        /\ last' = Call("ok", "")
        /\ UNCHANGED <<txns, docTxn, handles, callback, ytypes, branches, uaf, observers, events,
                       docObservers, afterEvents, iters>>

\* encode_state_vector: per client the highest clock the document holds.
encode_state_vector(st) ==
    [c \in Docs |-> Max({x.id[2] : x \in {y \in st.items : y.id[1] = c}} \cup {0})]

\* An encode_state_as_update that leaves the deletions out.
encode_state_as_update_no_deletes(st, vector) ==
    [items |-> {x \in st.items : x.id[2] > vector[x.id[1]]}, deleted |-> {}]

\* encode_state_as_update: the blocks behind the given state vector and
\* the deletions of the document.
encode_state_as_update(st, vector) ==
    [items |-> {x \in st.items : x.id[2] > vector[x.id[1]]}, deleted |-> st.deleted]

\* apply_update: the document gains the blocks and the deletions of diff.
apply_update(st, diff) ==
    [items |-> st.items \cup diff.items, deleted |-> st.deleted \cup diff.deleted]

\* apply_update(b, encode_state_as_update(a, encode_state_vector(b)))
Sync(a, b) ==
    /\ Running /\ a # b
    /\ blocks' = [blocks EXCEPT ![b] =
                     apply_update(@, encode_state_as_update(blocks[a], encode_state_vector(@)))]
    /\ last' = [op |-> "sync", res |-> "ok", err |-> "", val |-> <<a, b>>]
    /\ UNCHANGED <<txns, docTxn, handles, callback, ytypes, branches, uaf, observers, events,
                   docObservers, afterEvents, iters>>

\* ------------------------------------------------------ container mutations
\* A transact that runs the closure without looking at the committed flag.
transact_unchecked(h, f) == f

\* A transact that refuses a transaction in which a call has failed.
transact_poisoned(h, f) ==
    IF txns[handles[h].inner].committed \/ txns[handles[h].inner].failed
    THEN [Store EXCEPT !.res = "AlreadyCommitted"]
    ELSE f

\* YTransaction::transact: the closure f runs unless the shared transaction
\* is committed.
transact(h, f) ==
    IF txns[handles[h].inner].committed
    THEN [Store EXCEPT !.res = "AlreadyCommitted"]
    ELSE f

\* An _insert that hands every index to the engine or to the buffer.
_insert_any_index(c, index, x) ==
    LET yt == ytypes[c]
    IN  IF ~yt.prelim
        THEN EngineInsert(Store, yt.branch, yt.doc, index, 0, x, {c})
        ELSE [Store EXCEPT !.y[c].payload =
                 InsertAt(@, IF index > Len(@) THEN Len(@) ELSE index, <<[k |-> 0, val |-> x]>>)]

\* YArray::_insert
_insert(c, index, x) ==
    LET yt == ytypes[c]
    IN  IF ~yt.prelim /\ ArrLen(branches[yt.branch].items) >= index
        THEN EngineInsert(Store, yt.branch, yt.doc, index, 0, x, {c})
        ELSE IF yt.prelim /\ Len(yt.payload) >= index
        THEN [Store EXCEPT !.y[c].payload = InsertAt(@, index, <<[k |-> 0, val |-> x]>>)]
        ELSE [Store EXCEPT !.res = "IndexError"]

\* YArray::_append
_append(c, x) ==
    LET yt == ytypes[c]
    IN  IF ~yt.prelim
        THEN EngineInsert(Store, yt.branch, yt.doc, ArrLen(branches[yt.branch].items), 0, x, {c})
        ELSE [Store EXCEPT !.y[c].payload = Append(@, [k |-> 0, val |-> x])]

\* An _insert_range that stores the elements at the end of the array.
_insert_range_at_end(c, index, items) ==
    LET yt == ytypes[c]
    IN  IF ~yt.prelim /\ ArrLen(branches[yt.branch].items) >= index
        THEN insert_multiple_at(Store, yt.branch, yt.doc, ArrLen(branches[yt.branch].items),
                                items, 1, {c})
        ELSE [Store EXCEPT !.res = "IndexError"]

\* YArray::_insert_range
_insert_range(c, index, items) ==
    LET yt == ytypes[c]
    IN  IF ~yt.prelim /\ ArrLen(branches[yt.branch].items) >= index
        THEN insert_multiple_at(Store, yt.branch, yt.doc, index, items, 1, {c})
        ELSE IF yt.prelim /\ Len(yt.payload) >= index
        THEN [Store EXCEPT !.y[c].payload =
                 InsertAt(@, index, [j \in 1..Len(items) |-> [k |-> 0, val |-> items[j]]])]
        ELSE [Store EXCEPT !.res = "IndexError"]

\* YArray::_delete
_delete(c, index) ==
    LET yt == ytypes[c]
        items == branches[yt.branch].items
        p == PosOf(items, index + 1)
    IN  IF ~yt.prelim /\ index < ArrLen(items)
        THEN [Store EXCEPT !.b[yt.branch].items = SubSeq(items, 1, p - 1) \o SubSeq(items, p + 1, Len(items))]
        ELSE IF yt.prelim /\ index < Len(yt.payload)
        THEN [Store EXCEPT !.y[c].payload = SubSeq(@, 1, index) \o SubSeq(@, index + 2, Len(@))]
        ELSE [Store EXCEPT !.res = "IndexError"]

\* Vec::remove at the 0-based index p.
RemoveAt(v, p) == SubSeq(v, 1, p) \o SubSeq(v, p + 2, Len(v))

\* The while loop of YArray::_move_range_to over the buffered elements:
\* [v, res]. Vec::remove panics on an index behind the last element.
RECURSIVE MoveLoop(_, _, _, _, _, _)
MoveLoop(v, start, target, i, n, backwards) ==
    IF n = 0 THEN [v |-> v, res |-> "ok"]
    ELSE IF start + i >= Len(v) THEN [v |-> v, res |-> "panic"]
    ELSE LET item == v[start + i + 1]
             v1 == RemoveAt(v, start + i)
         IN  IF backwards
             THEN MoveLoop(InsertAt(v1, target - 1, <<item>>), start, target, i, n - 1, TRUE)
             ELSE MoveLoop(InsertAt(v1, target + i, <<item>>), start, target, i + 1, n - 1, FALSE)

\* 2^32 + k modulo m, for the count (end - start + 1) as usize of a release
\* build when end - start + 1 = k is negative in u32.
Wrap32Mod(k, m) == ((((65536 % m) * (65536 % m)) % m) + (m * (1 - k)) + k) % m

\* The rounds of the loop that decide its result when the count is n: a
\* forward loop ends with a panic once start + i reaches the length, a
\* backward loop repeats one rotation of the elements between start and
\* target - 1.
Rounds(v, start, end, target) ==
    LET k == end - start + 1
        far == target - 1 - start
        cycle == (IF far >= 0 THEN far ELSE 0 - far) + 1
    IN  IF k >= 0 THEN k
        ELSE IF target > end /\ start < Len(v) THEN Wrap32Mod(k, cycle)
        ELSE Len(v) + 1

\* The engine's Array::move_range_to on the slots of a sequence: [items,
\* res]. A target within the range moves nothing; the engine panics on an
\* index outside of the sequence.
EngineMoveRange(items, start, end, target) ==
    LET n == ArrLen(items)
        ps == PosOf(items, start + 1)
        pe == PosOf(items, end + 1)
        pt == IF target = n THEN Len(items) + 1 ELSE PosOf(items, target + 1)
        seg == SubSeq(items, ps, pe)
    IN  IF start <= target /\ target <= end /\ start < n /\ end < n
        THEN [items |-> items, res |-> "ok"]
        ELSE IF start >= n \/ end >= n \/ target > n \/ start > end
        THEN [items |-> items, res |-> "panic"]
        ELSE IF target < start
        THEN [items |-> SubSeq(items, 1, pt - 1) \o seg \o SubSeq(items, pt, ps - 1)
                           \o SubSeq(items, pe + 1, Len(items)),
              res |-> "ok"]
        ELSE [items |-> SubSeq(items, 1, ps - 1) \o SubSeq(items, pe + 1, pt - 1) \o seg
                           \o SubSeq(items, pt, Len(items)),
              res |-> "ok"]

\* YArray::_move_range_to. build is "debug" or "release": end - start
\* overflows in u32 when start > end, which panics in a debug build and
\* wraps in a release build.
_move_range_to(c, start, end, target, build) ==
    LET yt == ytypes[c]
        v == yt.payload
        e == EngineMoveRange(branches[yt.branch].items, start, end, target)
        r == MoveLoop(v, start, target, 0, Rounds(v, start, end, target), target > end)
    IN  IF ~yt.prelim
        THEN [Store EXCEPT !.b[yt.branch].items = e.items, !.res = e.res]
        ELSE IF start > Len(v) \/ end > Len(v) \/ target > Len(v)
        THEN [Store EXCEPT !.res = "IndexError"]
        ELSE IF target >= start /\ target <= end THEN Store
        ELSE IF start > end /\ build = "debug" THEN [Store EXCEPT !.res = "panic"]
        ELSE [Store EXCEPT !.y[c].payload = r.v, !.res = r.res]

\* YArray::_extend: _insert_range at the length of the array.
YArray_extend(c, items) ==
    _insert_range(c, IF ytypes[c].prelim THEN Len(ytypes[c].payload)
                     ELSE ArrLen(branches[ytypes[c].branch].items), items)

\* The engine's Array::remove_range on the slots of a sequence: [items,
\* res]. The engine panics when the range ends behind the sequence.
RECURSIVE EngineRemoveRange(_, _, _)
EngineRemoveRange(items, index, length) ==
    LET p == PosOf(items, index + 1)
    IN  IF index + length > ArrLen(items) THEN [items |-> items, res |-> "panic"]
        ELSE IF length = 0 THEN [items |-> items, res |-> "ok"]
        ELSE EngineRemoveRange(SubSeq(items, 1, p - 1) \o SubSeq(items, p + 1, Len(items)),
                               index, length - 1)

\* YArray::_delete_range. Vec::drain panics when the range ends behind the
\* last element.
_delete_range(c, index, length) ==
    LET yt == ytypes[c]
        e == EngineRemoveRange(branches[yt.branch].items, index, length)
    IN  IF ~yt.prelim
        THEN [Store EXCEPT !.b[yt.branch].items = e.items, !.res = e.res]
        ELSE IF index + length > Len(yt.payload) THEN [Store EXCEPT !.res = "panic"]
        ELSE [Store EXCEPT !.y[c].payload =
                 SubSeq(@, 1, index) \o SubSeq(@, index + length + 1, Len(@))]

\* The engine's Array::move_to on the slots of a sequence: [items, res].
\* A target at the source or right behind it moves nothing; the engine
\* panics on an index outside of the sequence.
EngineMoveTo(items, source, target) ==
    IF source = target \/ source + 1 = target THEN [items |-> items, res |-> "ok"]
    ELSE IF source >= ArrLen(items) \/ target > ArrLen(items)
    THEN [items |-> items, res |-> "panic"]
    ELSE EngineMoveRange(items, source, source, target)

\* YArray::_move_to
_move_to(c, source, target) ==
    LET yt == ytypes[c]
        v == yt.payload
        e == EngineMoveTo(branches[yt.branch].items, source, target)
    IN  IF ~yt.prelim
        THEN [Store EXCEPT !.b[yt.branch].items = e.items, !.res = e.res]
        ELSE IF source < Len(v) /\ target < Len(v)
        THEN IF source < target
             THEN [Store EXCEPT !.y[c].payload =
                      InsertAt(RemoveAt(v, source), target - 1, <<v[source + 1]>>)]
             ELSE IF source > target
             THEN [Store EXCEPT !.y[c].payload =
                      InsertAt(RemoveAt(v, source), target, <<v[source + 1]>>)]
             ELSE Store
        ELSE [Store EXCEPT !.res = "IndexError"]

\* YMap::_set; pos is where the host's hash map iterates the new entry.
_set(c, key, x, pos) ==
    LET yt == ytypes[c]
        rest == SelectSeq(yt.payload, LAMBDA e : e.k # key)
    IN  IF ~yt.prelim
        THEN EngineInsert(Store, yt.branch, yt.doc, 0, key, x, {c})
        ELSE [Store EXCEPT !.y[c].payload =
                 InsertAt(rest, IF pos > Len(rest) THEN Len(rest) ELSE pos, <<[k |-> key, val |-> x]>>)]

\* YText::_extend
_extend(c, chunk) ==
    LET yt == ytypes[c]
    IN  IF ~yt.prelim
        THEN [Store EXCEPT !.b[yt.branch].items = Append(@, Slot(0, "String", chunk.v))]
        ELSE [Store EXCEPT !.y[c].payload = Append(@, [k |-> 0, val |-> chunk])]

\* YText::_insert. A chunk of the model is one character long, so a text
\* holds one slot per chunk; attrs is "None", "Ok" (attributes that parse)
\* or "Err" (attributes that do not). Text::insert of the engine and
\* String::insert_str panic on an index behind the end.
YText_insert(c, index, chunk, attrs) ==
    LET yt == ytypes[c]
    IN  IF attrs = "Err" THEN [Store EXCEPT !.res = "TypeError"]
        ELSE IF attrs = "Ok" /\ yt.prelim
        THEN [Store EXCEPT !.res = "IntegratedOperationException"]
        ELSE IF ~yt.prelim
        THEN IF index > Len(branches[yt.branch].items) THEN [Store EXCEPT !.res = "panic"]
             ELSE [Store EXCEPT !.b[yt.branch].items =
                      InsertAt(@, index, <<Slot(0, "String", chunk.v)>>)]
        ELSE IF index > Len(yt.payload) THEN [Store EXCEPT !.res = "panic"]
             ELSE [Store EXCEPT !.y[c].payload = InsertAt(@, index, <<[k |-> 0, val |-> chunk]>>)]

\* The host values a call may be given when n shared type objects exist.
WellFormed(x, n) ==
    /\ x.t = "YType" => x.v \in 1..n
    /\ x.t = "List" => \A j \in 1..Len(PyLists[x.v]) :
                          PyLists[x.v][j].t = "YType" => PyLists[x.v][j].v \in 1..n

\* The slots a container holds, buffered or live.
Size(c) == IF ytypes[c].prelim THEN Len(ytypes[c].payload)
           ELSE Len(branches[ytypes[c].branch].items)

Target(c, kind) == c \in 1..Len(ytypes) /\ ytypes[c].kind = kind

\* What a mutation called with handle h leaves behind: r is the result of
\* transact.
Mutation(h, xs, r) ==
    /\ Running /\ Alive(h)
    /\ \A j \in 1..Len(xs) : WellFormed(xs[j], Len(ytypes))
    /\ Len(r.b) <= MaxBranches
    /\ ytypes' = r.y
    /\ branches' = r.b
    /\ txns' = [txns EXCEPT ![handles[h].inner].pending = @ \/ r.b # branches,
                            ![handles[h].inner].failed =
                                @ \/ r.res \notin {"ok", "AlreadyCommitted"} \/ r.err # ""]
    /\ observers' = Touch(observers,
                          {b \in 1..Len(branches) : r.b[b].items # branches[b].items},
                          handles[h].inner)
    /\ last' = [op |-> "mutation", res |-> r.res, err |-> r.err]
    /\ UNCHANGED <<docTxn, handles, callback, uaf, events, docObservers, afterEvents, blocks, iters>>

\* YArray::insert
ArrayInsert(h, c, index, x) ==
    /\ Target(c, "Array") /\ Size(c) < MaxLen
    /\ Mutation(h, <<x>>, transact(h, _insert(c, index, x)))

\* YArray::append
ArrayAppend(h, c, x) ==
    /\ Target(c, "Array") /\ Size(c) < MaxLen
    /\ Mutation(h, <<x>>, transact(h, _append(c, x)))

\* YArray::insert_range
ArrayInsertRange(h, c, index, items) ==
    /\ Target(c, "Array") /\ Size(c) + Len(items) <= MaxLen
    /\ Mutation(h, items, transact(h, _insert_range(c, index, items)))

\* YArray::delete
ArrayDelete(h, c, index) ==
    /\ Target(c, "Array")
    /\ Mutation(h, <<>>, transact(h, _delete(c, index)))

\* YArray::move_range_to
ArrayMoveRange(h, c, start, end, target, build) ==
    /\ Target(c, "Array")
    /\ Mutation(h, <<>>, transact(h, _move_range_to(c, start, end, target, build)))

\* YArray::extend
ArrayExtend(h, c, items) ==
    /\ Target(c, "Array") /\ Size(c) < MaxLen
    /\ Mutation(h, items, transact(h, YArray_extend(c, items)))

\* YArray::delete_range
ArrayDeleteRange(h, c, index, length) ==
    /\ Target(c, "Array")
    /\ Mutation(h, <<>>, transact(h, _delete_range(c, index, length)))

\* YArray::move_to
ArrayMoveTo(h, c, source, target) ==
    /\ Target(c, "Array")
    /\ Mutation(h, <<>>, transact(h, _move_to(c, source, target)))

\* The numbers an array of numbers holds, buffered or live.
NumbersOf(c) ==
    IF ytypes[c].prelim THEN [j \in 1..Len(ytypes[c].payload) |-> ytypes[c].payload[j].val.v]
    ELSE LET live == SelectSeq(branches[ytypes[c].branch].items, LAMBDA e : e.t # "Empty")
         IN  [j \in 1..Len(live) |-> live[j].v]

\* YArray::__getitem__ with a slice (get_range): __len__ for the indices,
\* then the elements, each read of an Integrated array in the transaction
\* with_transaction gives.
ArraySlice(c, start, stop, step) ==
    /\ Running /\ Target(c, "Array") /\ step # 0
    /\ LET v == NumbersOf(c)
           ix == PySliceIndices(start, stop, step, Len(v))
           d == ytypes[c].doc
           r1 == with_transaction(txns, docTxn, d)
           r2 == with_transaction(r1.txns, r1.docTxn, d)
           got == IF ytypes[c].prelim THEN get_range_prelim(v, ix.start, ix.stop, step)
                  ELSE get_range_integrated(v, ix.start, ix.stop, step)
       IN  /\ last' = [op |-> "slice", res |-> got.res, err |-> "", val |-> got.val]
           /\ IF ytypes[c].prelim
              THEN UNCHANGED <<txns, docTxn, observers, events, docObservers, afterEvents>>
              ELSE /\ has_transaction(txns, docTxn, d) \/ Len(txns) + 2 <= MaxTxns
                   /\ txns' = r2.txns
                   /\ docTxn' = r2.docTxn
                   /\ Callbacks(r2.txns, observers)
    /\ UNCHANGED <<handles, callback, ytypes, branches, uaf, blocks, iters>>

\* YMap::set
MapSet(h, c, key, x, pos) ==
    /\ Target(c, "Map") /\ pos <= Size(c)
    /\ Mutation(h, <<x>>, transact(h, _set(c, key, x, pos)))

\* YText::extend
TextExtend(h, c, chunk) ==
    /\ Target(c, "Text") /\ Size(c) < MaxLen
    /\ Mutation(h, <<chunk>>, transact(h, _extend(c, chunk)))

\* YText::insert
TextInsert(h, c, index, chunk, attrs) ==
    /\ Target(c, "Text") /\ Size(c) < MaxLen
    /\ Mutation(h, <<chunk>>, transact(h, YText_insert(c, index, chunk, attrs)))

\* Whether the YTransactionInner i is alive with its engine transaction.
TxnOpen(T, i) == T[i].rc > 0 /\ ~T[i].committed

\* YMapIterator::from, behind YMap::__iter__ and the iterators of keys(),
\* items() and values(): the engine iterator is made in with_transaction
\* and keeps a reference to the YTransactionInner it was given, whose
\* strong reference with_transaction releases on return. get_doc unwraps
\* the document of the map, which a Preliminary map has not.
MapIterNew(c) ==
    /\ Running /\ Target(c, "Map") /\ Len(iters) < MaxIters
    /\ IF ytypes[c].doc = 0
       THEN /\ last' = [op |-> "iter", res |-> "panic", err |-> ""]
            /\ UNCHANGED <<txns, docTxn, observers, events, docObservers, afterEvents, iters>>
       ELSE LET b == begin_transaction(txns, docTxn, ytypes[c].doc)
                r == with_transaction(txns, docTxn, ytypes[c].doc)
            IN  /\ TxnRoom(ytypes[c].doc)
                /\ txns' = r.txns
                /\ docTxn' = r.docTxn
                /\ Callbacks(r.txns, observers)
                /\ iters' = Append(iters, [map |-> c, txn |-> b.idx, alive |-> TRUE])
                /\ last' = [op |-> "iter", res |-> "ok", err |-> ""]
    /\ UNCHANGED <<handles, callback, ytypes, branches, uaf, blocks>>

\* YMapIterator::__next__: the engine iterator is advanced with the
\* reference it keeps; open tells whether that transaction is still alive
\* and not committed. Through a released transaction the read is undefined:
\* it returns or the process crashes.
MapIterNext(i, outcome) ==
    /\ Running /\ i \in 1..Len(iters) /\ iters[i].alive
    /\ outcome = "crash" => ~TxnOpen(txns, iters[i].txn)
    /\ last' = [op |-> "next", res |-> outcome, err |-> "",
                open |-> TxnOpen(txns, iters[i].txn)]
    /\ UNCHANGED <<txns, docTxn, handles, callback, ytypes, branches, uaf, observers, events,
                   docObservers, afterEvents, blocks, iters>>

\* impl Drop for YMapIterator
MapIterDrop(i) ==
    /\ Running /\ i \in 1..Len(iters) /\ iters[i].alive
    /\ iters' = [iters EXCEPT ![i].alive = FALSE]
    /\ last' = Call("ok", "")
    /\ UNCHANGED <<txns, docTxn, handles, callback, ytypes, branches, uaf, observers, events,
                   docObservers, afterEvents, blocks>>

\* YArray::new / YMap::new / YText::new: a Preliminary object with its
\* buffered payload.
NewPrelim(kind, payload) ==
    /\ Running /\ Len(ytypes) < MaxYTypes
    /\ \A j \in 1..Len(payload) : WellFormed(payload[j].val, Len(ytypes))
    /\ ytypes' = Append(ytypes, [kind |-> kind, prelim |-> TRUE, payload |-> payload,
                                 branch |-> 0, doc |-> 0])
    /\ last' = Call("ok", "")
    /\ UNCHANGED <<txns, docTxn, handles, callback, branches, uaf, observers, events, docObservers, afterEvents, blocks, iters>>

\* ----------------------------------------------------------- specifications
Outcomes == {"ok", "crash"}
Int1 == Val("Int", 1)
Str1 == Val("Str", 1)
HandleIds == 1..MaxHandles
YTypeIds == 1..MaxYTypes

\* The transaction life cycle of two documents, with scalar appends to the
\* root arrays and remote updates as the mutations.
NextTxn ==
    \/ \E d \in Docs : Begin(d)
    \/ \E h \in HandleIds : Commit(h)
    \/ \E h \in HandleIds : Exit(h, FALSE)
    \/ \E h \in HandleIds : Drop(h)
    \/ \E d \in Docs : TransactCall(d)
    \/ \E d \in Docs, keep \in BOOLEAN : TransactReturn(d, keep)
    \/ \E c \in YTypeIds : Read(c)
    \/ \E d \in Docs : Encode(d)
    \/ \E d \in Docs : ApplyUpdate(d)
    \/ \E h \in HandleIds, c \in YTypeIds : ArrayAppend(h, c, Int1)

SpecTxn == Init /\ [][NextTxn]_vars

\* The calls of a transaction handle that read the engine transaction.
NextStale ==
    \/ \E d \in Docs : Begin(d)
    \/ \E h \in HandleIds : Commit(h)
    \/ \E h \in HandleIds : Drop(h)
    \/ \E h \in HandleIds, o \in Outcomes : StateVectorV1(h, o)
    \/ \E h \in HandleIds, o \in Outcomes : DiffV1(h, o)
    \/ \E h \in HandleIds, o \in Outcomes, w \in BOOLEAN : ApplyV1(h, o, w)
    \/ \E h \in HandleIds, o \in Outcomes : BeforeState(h, o)

SpecStale == Init /\ [][NextStale]_vars

\* The call passes a transaction of the document the container lives in.
SameDoc(h, c) ==
    /\ Alive(h) /\ Integrated(c)
    /\ ytypes[c].doc = txns[handles[h].inner].doc

\* Every kind of mutation with scalar values, under one transaction handle
\* that is open and then committed.
NextMut ==
    \/ handles = <<>> /\ Begin(1)
    \/ \E h \in HandleIds : Commit(h)
    \/ \E h \in HandleIds, c \in YTypeIds, i \in 0..MaxLen : SameDoc(h, c) /\ ArrayInsert(h, c, i, Int1)
    \/ \E h \in HandleIds, c \in YTypeIds : SameDoc(h, c) /\ ArrayAppend(h, c, Str1)
    \/ \E h \in HandleIds, c \in YTypeIds, i \in 0..MaxLen :
          SameDoc(h, c) /\ ArrayInsertRange(h, c, i, <<Int1, Str1>>)
    \/ \E h \in HandleIds, c \in YTypeIds, i \in 0..MaxLen : SameDoc(h, c) /\ ArrayDelete(h, c, i)
    \/ \E h \in HandleIds, c \in YTypeIds, k \in Keys, x \in {Int1, Str1} :
          SameDoc(h, c) /\ MapSet(h, c, k, x, 0)
    \/ \E h \in HandleIds, c \in YTypeIds : SameDoc(h, c) /\ TextExtend(h, c, Str1)

SpecMut == Init /\ [][NextMut]_vars

\* The values the root array is given: scalars, shared type objects, and
\* the first two objects the host creates.
Elem(x) == [k |-> 0, val |-> x]
P1 == Val("YType", Len(RootKinds) + 1)
P2 == Val("YType", Len(RootKinds) + 2)
Values == {Int1} \cup {Val("YType", c) : c \in YTypeIds}
Ranges == { <<Int1, P1>>, <<Val("List", 1), Val("Dict", 1)>>, <<P2>>, <<P1, P1>>, <<P1, P2>> }
Prelims == { [kind |-> "Array", payload |-> <<Elem(Int1)>>],
             [kind |-> "Array", payload |-> <<Elem(PyObj)>>],
             [kind |-> "Array", payload |-> <<Elem(P1), Elem(P1)>>],
             [kind |-> "Map", payload |-> <<[k |-> 1, val |-> Val("Int", 2)]>>] }

\* Shared type objects are created and nested into the root array of
\* document 1 under one transaction handle, open and then committed.
NextInt ==
    \/ handles = <<>> /\ Begin(1)
    \/ \E h \in HandleIds : Commit(h)
    \/ \E p \in Prelims : NewPrelim(p.kind, p.payload)
    \/ \E h \in HandleIds, i \in 0..MaxLen, x \in Values :
          SameDoc(h, 1) /\ ArrayInsert(h, 1, i, x)
    \/ \E h \in HandleIds, i \in 0..MaxLen, r \in Ranges :
          SameDoc(h, 1) /\ ArrayInsertRange(h, 1, i, r)

SpecInt == Init /\ [][NextInt]_vars

\* The call passes a transaction a mutation of c can run in: any for a
\* Preliminary object, one of its document for an Integrated one.
Usable(h, c) ==
    /\ Alive(h) /\ c \in 1..Len(ytypes)
    /\ ~ytypes[c].prelim => ytypes[c].doc = txns[handles[h].inner].doc

Attrs == {"None", "Ok", "Err"}
Indexes == 0..(MaxLen + 1)

\* Inserts at every index, behind the end included, into the root array
\* and the root text of document 1 and into one Preliminary array or text.
NextIdx ==
    \/ handles = <<>> /\ Begin(1)
    \/ \E h \in HandleIds : Commit(h)
    \/ \E k \in {"Array", "Text"} : Len(ytypes) = Len(RootKinds) /\ NewPrelim(k, <<>>)
    \/ \E h \in HandleIds, c \in YTypeIds, i \in Indexes :
          Usable(h, c) /\ ArrayInsert(h, c, i, Int1)
    \/ \E h \in HandleIds, c \in YTypeIds, i \in Indexes :
          Usable(h, c) /\ ArrayInsertRange(h, c, i, <<Int1, Str1>>)
    \/ \E h \in HandleIds, c \in YTypeIds, i \in Indexes, a \in Attrs :
          Usable(h, c) /\ TextInsert(h, c, i, Str1, a)

SpecIdx == Init /\ [][NextIdx]_vars

\* The values and ranges that make a call fail: an object of no supported
\* type, a list that holds one, an Integrated shared type object, alone or
\* behind elements that can be stored.
BadValues == {Int1, PyObj, Val("YType", 2)}
BadRanges == { <<Int1, Str1>>, <<Int1, PyObj>>, <<P1, PyObj>>, <<P1, Val("List", 2)>>,
               <<Int1, P1, PyObj>> }

\* Calls that fail and calls that succeed on the root array and the root
\* map of document 1, under one transaction handle, open and then committed.
NextErr ==
    \/ handles = <<>> /\ Begin(1)
    \/ \E h \in HandleIds : Commit(h)
    \/ NewPrelim("Array", <<Elem(Int1)>>)
    \/ \E h \in HandleIds, i \in Indexes, x \in BadValues :
          SameDoc(h, 1) /\ ArrayInsert(h, 1, i, x)
    \/ \E h \in HandleIds : SameDoc(h, 1) /\ ArrayAppend(h, 1, PyObj)
    \/ \E h \in HandleIds, k \in Keys, x \in {Int1, PyObj} :
          SameDoc(h, 2) /\ MapSet(h, 2, k, x, 0)
    \/ \E h \in HandleIds, i \in Indexes, r \in BadRanges :
          SameDoc(h, 1) /\ ArrayInsertRange(h, 1, i, r)

SpecErr == Init /\ [][NextErr]_vars

\* Subscriptions to the root array and the root map of document 1, the
\* mutations and commits that call them, and the getters of the events.
NextEv ==
    \/ handles = <<>> /\ Begin(1)
    \/ \E h \in HandleIds : Commit(h)
    \/ \E h \in HandleIds : Drop(h)
    \/ \E c \in YTypeIds : Observe(c)
    \/ \E h \in HandleIds : SameDoc(h, 1) /\ ArrayAppend(h, 1, Int1)
    \/ \E h \in HandleIds, k \in Keys : SameDoc(h, 2) /\ MapSet(h, 2, k, Int1, 0)
    \/ \E e \in 1..MaxTxns * 2, f \in EventFields, o \in Outcomes : EventGet(e, f, o)

SpecEv == Init /\ [][NextEv]_vars

Str2 == Val("Str", 2)

\* Transactions of document 1 one after the other, each with inserts into
\* the root text and appends to the root array, and reads in between.
NextLife ==
    \/ Begin(1)
    \/ \E h \in HandleIds : Commit(h)
    \/ \E h \in HandleIds : Drop(h)
    \/ \E h \in HandleIds, i \in 0..MaxLen, x \in {Str1, Str2} :
          SameDoc(h, 3) /\ TextInsert(h, 3, i, x, "None")
    \/ \E h \in HandleIds : SameDoc(h, 1) /\ ArrayAppend(h, 1, Int1)
    \/ \E c \in {1, 3} : ToJson(c)

SpecLife == Init /\ [][NextLife]_vars

\* The Preliminary objects the reads are called on.
Buffered == { [kind |-> "Array", payload |-> <<Elem(Int1)>>],
              [kind |-> "Map", payload |-> <<[k |-> 1, val |-> Int1]>>],
              [kind |-> "Text", payload |-> <<Elem(Str1)>>] }

\* Reads of Preliminary objects and of the roots of document 1, with and
\* without an open transaction, and subscriptions to Preliminary objects.
NextPre ==
    \/ handles = <<>> /\ Begin(1)
    \/ \E h \in HandleIds : Commit(h)
    \/ \E p \in Buffered : Len(ytypes) < Len(RootKinds) + 2 /\ NewPrelim(p.kind, p.payload)
    \/ \E h \in HandleIds, c \in YTypeIds, k \in Keys : Usable(h, c) /\ MapSet(h, c, k, Int1, 0)
    \/ \E c \in YTypeIds \ {4} : Read(c)
    \/ \E c \in YTypeIds \ {4} : ToJson(c)
    \/ \E c \in YTypeIds, k \in Keys, item \in BOOLEAN : MapGet(c, k, item)
    \/ \E c \in YTypeIds : c \in 1..Len(ytypes) /\ ytypes[c].prelim /\ Observe(c)

SpecPre == Init /\ [][NextPre]_vars

\* Callbacks registered with observe_after_transaction of document 1, and
\* the commits that call them: by commit, at the end of a with-block, by
\* the release of the last handle, and by a read.
NextAfter ==
    \/ Begin(1)
    \/ \E h \in HandleIds : Commit(h)
    \/ \E h \in HandleIds, raised \in BOOLEAN : Exit(h, raised)
    \/ \E h \in HandleIds : Drop(h)
    \/ ObserveAfter(1)
    \/ \E h \in HandleIds : SameDoc(h, 1) /\ ArrayAppend(h, 1, Int1)
    \/ Read(1)
    \/ \E e \in 1..(MaxTxns * MaxSubs), f \in AfterFields : AfterGet(e, f)

SpecAfter == Init /\ [][NextAfter]_vars

\* Two documents change their root sequences on their own and hand each
\* other what the other lacks, in either direction and in any order.
NextSync ==
    \/ \E d \in Docs, i \in 0..(MaxLen + 1) : LocalInsert(d, i)
    \/ \E d \in Docs, i \in 0..MaxLen : LocalDelete(d, i)
    \/ \E a \in Docs, b \in Docs : Sync(a, b)

SpecSync == Init /\ [][NextSync]_vars

\* Every operation that asks for a transaction of a document, with and
\* without one open.
NextArb ==
    \/ \E d \in Docs : Begin(d)
    \/ \E h \in HandleIds : Commit(h)
    \/ \E h \in HandleIds : Drop(h)
    \/ \E d \in Docs : TransactCall(d)
    \/ \E d \in Docs, keep \in BOOLEAN : TransactReturn(d, keep)
    \/ \E c \in YTypeIds : Read(c)
    \/ \E d \in Docs : Encode(d)
    \/ \E d \in Docs : ApplyUpdate(d)
    \/ \E d \in Docs : TransactMut(d)

SpecArb == Init /\ [][NextArb]_vars

\* A host value of every concrete type: bool, int, float, str, bytes, None,
\* a shared type object, list, dict, and an object of no supported type.
HostValues == {Val("Bool", 1), Int1, Val("Float", 1), Str1, Val("Bytes", 1), PyNone, P1,
               Val("YType", 1), Val("List", 1), Val("Dict", 1), PyObj}

\* Values of every host type are classified on their way into the root
\* array of document 1.
NextCls ==
    \/ handles = <<>> /\ Begin(1)
    \/ \E h \in HandleIds : Commit(h)
    \/ Len(ytypes) = Len(RootKinds) /\ NewPrelim("Array", <<Elem(Int1)>>)
    \/ \E h \in HandleIds, i \in 0..MaxLen, x \in HostValues :
          SameDoc(h, 1) /\ ArrayInsert(h, 1, i, x)

SpecCls == Init /\ [][NextCls]_vars

Builds == {"debug", "release"}
Int2 == Val("Int", 2)
Int3 == Val("Int", 3)

\* The elements a Preliminary array is created with: MaxLen + 1 different
\* numbers.
Numbers == [j \in 1..(MaxLen + 1) |-> Elem(Val("Int", j))]

\* Ranges of a Preliminary array and of the root array of document 1 are
\* moved, with every start, end and target up to one behind the length.
NextMove ==
    \/ handles = <<>> /\ Begin(1)
    \/ \E h \in HandleIds : Commit(h)
    \/ Len(ytypes) = Len(RootKinds) /\ NewPrelim("Array", Numbers)
    \/ \E h \in HandleIds, x \in {Int1, Int2} : SameDoc(h, 1) /\ ArrayAppend(h, 1, x)
    \/ \E h \in HandleIds, c \in YTypeIds, s \in 0..(MaxLen + 2), e \in 0..(MaxLen + 2),
          t \in 0..(MaxLen + 2), build \in Builds :
          Usable(h, c) /\ ArrayMoveRange(h, c, s, e, t, build)

SpecMove == Init /\ [][NextMove]_vars

\* Two Preliminary containers are created empty and filled, with each other
\* and with themselves too, and then inserted into the root array of
\* document 1.
NextCyc ==
    \/ handles = <<>> /\ Begin(1)
    \/ \E h \in HandleIds : Commit(h)
    \/ \E k \in {"Array", "Map"} : Len(ytypes) < Len(RootKinds) + 2 /\ NewPrelim(k, <<>>)
    \/ \E h \in HandleIds, c \in YTypeIds, x \in {Int1, P1, P2} :
          Usable(h, c) /\ ytypes[c].prelim /\ ArrayAppend(h, c, x)
    \/ \E h \in HandleIds, c \in YTypeIds, x \in {Int1, P1, P2} :
          Usable(h, c) /\ ytypes[c].prelim /\ MapSet(h, c, 1, x, 0)
    \/ \E h \in HandleIds, i \in 0..MaxLen, x \in {Int1, P1, P2} :
          SameDoc(h, 1) /\ ArrayInsert(h, 1, i, x)

SpecCyc == Init /\ [][NextCyc]_vars

\* Callbacks are subscribed to document 1 and to its root array, and the
\* commits that call them come from commit, from the release of the
\* transaction and from transact; the callbacks read.
NextReent ==
    \/ \E d \in Docs : Begin(d)
    \/ TransactCall(1)
    \/ ObserveAfter(1)
    \/ Observe(1)
    \/ \E h \in HandleIds : SameDoc(h, 1) /\ ArrayAppend(h, 1, Int1)
    \/ \E h \in HandleIds : CommitReading(h)
    \/ \E h \in HandleIds : DropReading(h)
    \/ \E keep \in BOOLEAN : TransactReturnReading(1, keep)
    \/ \E keep \in BOOLEAN : TransactReturn(1, keep)
    \/ \E h \in HandleIds : Commit(h)
    \/ \E h \in HandleIds : Drop(h)

SpecReent == Init /\ [][NextReent]_vars

\* The update functions of both documents, called with and without an
\* open transaction, inside and outside of a transact callback.
NextUpd ==
    \/ \E d \in Docs : Begin(d)
    \/ \E h \in HandleIds : Commit(h)
    \/ \E h \in HandleIds : Drop(h)
    \/ \E d \in Docs : TransactCall(d)
    \/ \E d \in Docs, keep \in BOOLEAN : TransactReturn(d, keep)
    \/ \E d \in Docs : Encode(d)
    \/ \E d \in Docs : ApplyUpdate(d)

SpecUpd == Init /\ [][NextUpd]_vars

\* Root-type lookups of both documents in every state of their
\* transactions.
NextRoot ==
    \/ \E d \in Docs : Begin(d)
    \/ \E h \in HandleIds : Commit(h)
    \/ \E h \in HandleIds : Drop(h)
    \/ \E d \in Docs : TransactCall(d)
    \/ \E d \in Docs, keep \in BOOLEAN : TransactReturn(d, keep)
    \/ \E c \in YTypeIds : Read(c)
    \/ \E d \in Docs : GetRoot(d)

SpecRoot == Init /\ [][NextRoot]_vars

Steps == {0 - 2, 0 - 1, 1, 2}
Bounds == (0 - (MaxLen + 2))..(MaxLen + 2)

\* Slices of a Preliminary array and of the root array of document 1, with
\* every start and stop around the ends and steps in both directions.
NextSlice ==
    \/ handles = <<>> /\ Begin(1)
    \/ \E h \in HandleIds : Commit(h)
    \/ Len(ytypes) = Len(RootKinds) /\ NewPrelim("Array", Numbers)
    \/ \E h \in HandleIds, x \in {Int1, Int2} : SameDoc(h, 1) /\ ArrayAppend(h, 1, x)
    \/ \E c \in YTypeIds, i \in Bounds, j \in Bounds, step \in Steps : ArraySlice(c, i, j, step)

SpecSlice == Init /\ [][NextSlice]_vars

\* The calls that edit an array: the operation with its arguments.
EditCalls ==
    [op : {"insert"}, i : Indexes, j : {0}, x : {Int1, Int2}]
    \cup [op : {"append"}, i : {0}, j : {0}, x : {Int1, Int2}]
    \cup [op : {"insert_range"}, i : Indexes, j : {0}, x : {Int1}]
    \cup [op : {"extend"}, i : {0}, j : {0}, x : {Int2}]
    \cup [op : {"delete"}, i : Indexes, j : {0}, x : {Int1}]
    \cup [op : {"delete_range"}, i : Indexes, j : Indexes, x : {Int1}]
    \cup [op : {"move_to"}, i : Indexes, j : Indexes, x : {Int1}]

\* The call e of array c with the transaction of handle h.
Edit(h, c, e) ==
    \/ e.op = "insert" /\ ArrayInsert(h, c, e.i, e.x)
    \/ e.op = "append" /\ ArrayAppend(h, c, e.x)
    \/ e.op = "insert_range" /\ ArrayInsertRange(h, c, e.i, <<e.x, Int2>>)
    \/ e.op = "extend" /\ ArrayExtend(h, c, <<Int1, e.x>>)
    \/ e.op = "delete" /\ ArrayDelete(h, c, e.i)
    \/ e.op = "delete_range" /\ ArrayDeleteRange(h, c, e.i, e.j)
    \/ e.op = "move_to" /\ ArrayMoveTo(h, c, e.i, e.j)

\* A Preliminary array, created empty, and the root array of document 1
\* are edited in one transaction.
NextEdit ==
    \/ handles = <<>> /\ Begin(1)
    \/ \E h \in HandleIds : Commit(h)
    \/ Len(ytypes) = Len(RootKinds) /\ NewPrelim("Array", <<>>)
    \/ \E h \in HandleIds, c \in YTypeIds, e \in EditCalls : Usable(h, c) /\ Edit(h, c, e)

SpecEdit == Init /\ [][NextEdit]_vars

\* The root map of document 1 is filled and iterated, and a Preliminary
\* map is iterated, with and without a transaction of the caller that is
\* begun, committed and dropped meanwhile.
NextIter ==
    \/ Begin(1)
    \/ \E h \in HandleIds : Commit(h)
    \/ \E h \in HandleIds : Drop(h)
    \/ \E h \in HandleIds, k \in Keys : SameDoc(h, 2) /\ MapSet(h, 2, k, Int1, 0)
    \/ Len(ytypes) = Len(RootKinds) /\ NewPrelim("Map", <<>>)
    \/ \E c \in YTypeIds : MapIterNew(c)
    \/ \E i \in 1..MaxIters, outcome \in {"ok", "crash"} : MapIterNext(i, outcome)
    \/ \E i \in 1..MaxIters : MapIterDrop(i)

SpecIter == Init /\ [][NextIter]_vars

\* ------------------------------------------------------------------- claims
\* The transactions of document d that are not committed.
OpenTxns(T, d) == {i \in 1..Len(T) : T[i].doc = d /\ ~T[i].committed}

C2_CommitOnLastDrop ==
    /\ [](\A i \in 1..Len(txns) : txns[i].rc = 0 => txns[i].committed /\ ~txns[i].pending)
    /\ [][\A h \in HandleIds :
            (Alive(h) /\ ~txns[handles[h].inner].committed /\ Drop(h))
               => LET i == handles[h].inner
                  IN  IF txns[i].rc > 1
                      THEN /\ ~txns'[i].committed /\ txns'[i].commits = 0
                           /\ txns'[i].pending = txns[i].pending
                      ELSE /\ txns'[i].committed /\ txns'[i].commits = 1
                           /\ ~txns'[i].pending
                           /\ OpenTxns(txns', txns[i].doc) = {}
                           /\ branches' = branches]_vars

\* The only transaction ever opened was committed by the drop of its last
\* handle, after a mutation.
C2_AutoCommitted ==
    /\ Len(txns) = 1
    /\ handles # <<>> /\ \A h \in 1..Len(handles) : ~handles[h].alive
    /\ txns[1].auto /\ txns[1].rc = 0
    /\ branches[Root(txns[1].doc)].items # <<>>

\* C3: the engine commit of a transaction runs at most once, it has run
\* exactly once when the transaction counts as committed, and it has run
\* once all references are gone.
C3_CommitExactlyOnce ==
    \A i \in 1..Len(txns) :
        /\ txns[i].commits <= 1
        /\ txns[i].committed <=> (txns[i].commits = 1)
        /\ txns[i].rc = 0 => txns[i].commits = 1

\* A transaction was committed by a call and lost its last reference later.
C3_CommittedThenDropped ==
    \E i \in 1..Len(txns) : txns[i].rc = 0 /\ txns[i].commits = 1 /\ ~txns[i].auto

\* C4: commit (or the exit of a with-block) on a handle whose transaction is
\* committed raises the already-committed error and changes nothing,
\* whichever handle of the transaction it is called on.
C4_SecondCommitRaises ==
    [][\A h \in HandleIds :
          (Alive(h) /\ txns[handles[h].inner].committed /\ (Commit(h) \/ Exit(h, FALSE)))
             => /\ last'.res = "AlreadyCommitted"
                /\ txns' = txns /\ handles' = handles]_vars

\* A container mutation called with handle h.
MutationBy(h) ==
    \E c \in YTypeIds :
        \/ \E i \in 0..MaxLen : ArrayInsert(h, c, i, Int1)
        \/ ArrayAppend(h, c, Str1)
        \/ \E i \in 0..MaxLen : ArrayInsertRange(h, c, i, <<Int1, Str1>>)
        \/ \E i \in 0..MaxLen : ArrayDelete(h, c, i)
        \/ \E k \in Keys, x \in {Int1, Str1} : MapSet(h, c, k, x, 0)
        \/ TextExtend(h, c, Str1)

C6_StaleUseFails ==
    [][\A h \in HandleIds :
          (/\ Alive(h) /\ txns[handles[h].inner].committed
           /\ \E o \in Outcomes :
                 \/ StateVectorV1(h, o) \/ DiffV1(h, o) \/ BeforeState(h, o)
                 \/ \E w \in BOOLEAN : ApplyV1(h, o, w))
             => /\ last'.res = "AlreadyCommitted"
                /\ ~uaf' /\ branches' = branches]_vars

\* C7: an Integrated shared type object stays as it is (state, container,
\* document), and a Preliminary one becomes Integrated only in a step that
\* stores a slot for its new container in a container of its document.
C7_IntegratedOnce ==
    [][/\ Len(ytypes') >= Len(ytypes)
       /\ \A c \in 1..Len(ytypes) :
            /\ ~ytypes[c].prelim => ytypes'[c] = ytypes[c]
            /\ (ytypes[c].prelim /\ ~ytypes'[c].prelim) =>
                  /\ ytypes'[c].branch > Len(branches)
                  /\ \E b \in 1..Len(branches') : \E p \in 1..Len(branches'[b].items) :
                        /\ branches'[b].items[p].t = "Type"
                        /\ branches'[b].items[p].v = ytypes'[c].branch
                        /\ branches'[b].doc = ytypes'[c].doc]_vars

\* An object the host created Preliminary is Integrated.
C7_BecameIntegrated ==
    \E c \in 1..Len(ytypes) : c > Len(RootKinds) /\ ~ytypes[c].prelim

\* C8: the insert of an Integrated shared type object into the root array
\* fails with MultipleIntegrationError and stores nothing.
C8_IntegratedRejected ==
    [][\A h \in HandleIds, i \in 0..MaxLen, c \in YTypeIds :
          (/\ SameDoc(h, 1) /\ ~txns[handles[h].inner].committed
           /\ Integrated(c) /\ c # 1
           /\ i <= ArrLen(branches[1].items)
           /\ ArrayInsert(h, 1, i, Val("YType", c)))
             => /\ last'.res = "MultipleIntegrationError"
                /\ branches' = branches /\ ytypes' = ytypes]_vars

\* C9: no shared type object has two engine containers made for it, and no
\* engine container is held by two slots.
C9_OneSlotPerHandle ==
    /\ \A b1, b2 \in 1..Len(branches) : branches[b1].from = branches[b2].from => b1 = b2
    /\ \A a1, a2 \in 1..Len(branches) :
          \A p1 \in 1..Len(branches[a1].items), p2 \in 1..Len(branches[a2].items) :
             (/\ branches[a1].items[p1].t = "Type"
              /\ branches[a1].items[p1] = branches[a2].items[p2])
                => a1 = a2 /\ p1 = p2

\* The elements insert_range is specified for: scalars, plain lists and
\* dicts of such, and distinct Preliminary objects that buffer such values.
Plain(x) == CompatiblePyType(x) \notin {"Err", "YType"} /\ AnyTryFrom(x).err = ""
ValidRange(r) ==
    \A j \in 1..Len(r) :
        \/ Plain(r[j])
        \/ /\ r[j].t = "YType" /\ r[j].v \in 1..Len(ytypes) /\ ytypes[r[j].v].prelim
           /\ \A j2 \in 1..Len(r) : r[j2] = r[j] => j2 = j
           /\ \A e \in 1..Len(ytypes[r[j].v].payload) : Plain(ytypes[r[j].v].payload[e].val)
Countable(items) == SelectSeq(items, LAMBDA e : e.t # "Empty")
PayloadSlots(yt) ==
    [e \in 1..Len(yt.payload) |->
        Slot(IF yt.kind = "Map" THEN yt.payload[e].k ELSE 0,
             AnyTryFrom(yt.payload[e].val).t, AnyTryFrom(yt.payload[e].val).v)]

Content(Y, B, c) ==
    IF Y[c].prelim THEN [j \in 1..Len(Y[c].payload) |-> Y[c].payload[j].val]
    ELSE Countable(B[Y[c].branch].items)
Stored(Y, c, xs) ==
    IF Y[c].prelim THEN xs
    ELSE [j \in 1..Len(xs) |-> Slot(0, AnyTryFrom(xs[j]).t, AnyTryFrom(xs[j]).v)]

\* C11: insert and insert_range on an array of length L, Preliminary or
\* Integrated, in an open transaction: an index above L fails with the
\* index error and leaves every container as it was; an index up to L is
\* accepted, and with the index L the elements are appended.
C11_IndexOutOfRange ==
    [][\A h \in HandleIds, c \in YTypeIds, i \in Indexes :
         \A xs \in {<<Int1>>, <<Int1, Str1>>} :
          (/\ Usable(h, c) /\ ~txns[handles[h].inner].committed
           /\ \/ Len(xs) = 1 /\ ArrayInsert(h, c, i, xs[1])
              \/ Len(xs) = 2 /\ ArrayInsertRange(h, c, i, xs))
             => LET L == Len(Content(ytypes, branches, c))
                IN  IF i > L
                    THEN /\ last'.res = "IndexError"
                         /\ ytypes' = ytypes /\ branches' = branches
                    ELSE /\ last'.res = "ok"
                         /\ Len(Content(ytypes', branches', c)) = L + Len(xs)
                         /\ i = L => Content(ytypes', branches', c)
                                        = Content(ytypes, branches, c) \o Stored(ytypes, c, xs)]_vars

\* An insert behind the end of a Preliminary array that holds an element
\* was refused.
C11_RefusedBehindEnd ==
    /\ last.op = "mutation" /\ last.res = "IndexError"
    /\ \E c \in 1..Len(ytypes) :
          ytypes[c].prelim /\ ytypes[c].kind = "Array" /\ ytypes[c].payload # <<>>
    /\ branches[1].items # <<>>

\* C12: YText insert without attributes at an index above the length of the
\* text, Preliminary or Integrated, in an open transaction fails with the
\* index error, not with a panic, and leaves every container as it was.
C12_TextIndexOutOfRange ==
    [][\A h \in HandleIds, c \in YTypeIds, i \in Indexes :
          (/\ Usable(h, c) /\ ~txns[handles[h].inner].committed
           /\ Target(c, "Text") /\ i > Size(c)
           /\ TextInsert(h, c, i, Str1, "None"))
             => /\ last'.res = "IndexError"
                /\ ytypes' = ytypes /\ branches' = branches]_vars

\* C13: a mutation of an Integrated container called with an open
\* transaction of another document fails with CrossDocumentError and
\* changes no container and no transaction.
C13_CrossDocumentRefused ==
    [][\A h \in HandleIds, c \in YTypeIds :
          (/\ Alive(h) /\ Integrated(c)
           /\ ~txns[handles[h].inner].committed
           /\ ytypes[c].doc # txns[handles[h].inner].doc
           /\ ArrayAppend(h, c, Int1))
             => /\ last'.res = "CrossDocumentError"
                /\ branches' = branches /\ ytypes' = ytypes /\ txns' = txns]_vars

\* C14: the insert or the append of an object of no supported type into the
\* root array, and the set of one in the root map, in an open transaction
\* fails with the type error returned by the call and stores nothing.
C14_UnsupportedRejected ==
    [][\A h \in HandleIds :
          (/\ SameDoc(h, 1) /\ ~txns[handles[h].inner].committed
           /\ \/ \E i \in Indexes : i <= ArrLen(branches[1].items) /\ ArrayInsert(h, 1, i, PyObj)
              \/ ArrayAppend(h, 1, PyObj)
              \/ \E k \in Keys : MapSet(h, 2, k, PyObj, 0))
             => /\ last'.res = "TypeError"
                /\ branches' = branches /\ ytypes' = ytypes]_vars

\* C15: a mutation that fails in an open transaction (by the error it
\* returns, the error it leaves pending, or a panic) leaves the transaction
\* open and its handles as they were; in a transaction in which a call has
\* failed an insert of a number at a valid index still succeeds, stores the
\* number and is pending for the commit; a committed transaction has
\* nothing pending.
C15_FailureKeepsTransaction ==
    /\ [][\A i \in 1..Len(txns) :
            (/\ ~txns[i].committed /\ last'.op = "mutation"
             /\ (last'.res # "ok" \/ last'.err # ""))
               => /\ i <= Len(txns') /\ ~txns'[i].committed
                  /\ handles' = handles /\ docTxn' = docTxn]_vars
    /\ [][\A h \in HandleIds, i \in Indexes :
            (/\ SameDoc(h, 1) /\ ~txns[handles[h].inner].committed
             /\ txns[handles[h].inner].failed
             /\ i <= ArrLen(branches[1].items)
             /\ ArrayInsert(h, 1, i, Int1))
               => /\ last'.res = "ok" /\ last'.err = ""
                  /\ Countable(branches'[1].items)
                        = InsertAt(Countable(branches[1].items), i, <<Slot(0, "Number", 1)>>)
                  /\ txns'[handles[h].inner].pending]_vars
    /\ [](\A i \in 1..Len(txns) : txns[i].committed => ~txns[i].pending)

\* A number was stored in an open transaction in which a call had failed.
C15_SucceededAfterFailure ==
    /\ last = [op |-> "mutation", res |-> "ok", err |-> ""]
    /\ \E i \in 1..Len(txns) : ~txns[i].committed /\ txns[i].failed /\ txns[i].pending
    /\ \E p \in 1..Len(branches[1].items) : branches[1].items[p].t = "Number"

\* The first element of r that is no shared type object and cannot be
\* converted (0 when none), and the first element of the run it stands in.
Unconvertible(x) ==
    /\ CompatiblePyType(x) # "YType"
    /\ CompatiblePyType(x) = "Err" \/ AnyTryFrom(x).err # ""
FirstBad(r) ==
    IF \E j \in 1..Len(r) : Unconvertible(r[j])
    THEN CHOOSE j \in 1..Len(r) :
            Unconvertible(r[j]) /\ \A j2 \in 1..(j - 1) : ~Unconvertible(r[j2])
    ELSE 0
RunStart(r, f) ==
    CHOOSE j \in 1..f :
        /\ \A j2 \in j..f : CompatiblePyType(r[j2]) # "YType"
        /\ j > 1 => CompatiblePyType(r[j - 1]) = "YType"

C17_EventFieldsCached ==
    /\ [](\A e \in 1..Len(events), f \in EventFields :
            /\ events[e].computed[f] <= 1
            /\ events[e].cache[f] # 0 <=> events[e].computed[f] = 1)
    /\ [][\A e \in 1..Len(events), f \in EventFields :
            events[e].cache[f] # 0
              => /\ e <= Len(events') /\ events'[e].cache[f] = events[e].cache[f]
                 /\ events'[e].computed[f] = events[e].computed[f]
                 /\ \A o \in Outcomes :
                       EventGet(e, f, o)
                         => /\ last'.res = "ok" /\ last'.val = events[e].cache[f]
                            /\ uaf' = uaf]_vars

\* The changes of an event were read in the callback, and a later access
\* returned the cached value.
C17_ReturnedFromCache ==
    /\ last.op = "event" /\ last.res = "ok" /\ last.cached
    /\ ~uaf
    /\ \E e \in 1..Len(events) :
          events[e].cache[ChangeField(events[e].kind)] = last.val

\* C18: target, delta and keys of an event object read after the
\* transaction that made it has committed raise StaleEventError, and the
\* released engine transaction and engine event are not read.
C18_StaleEventRaises ==
    [][\A e \in 1..Len(events), f \in EventFields, o \in Outcomes :
          (txns[events[e].txn].committed /\ EventGet(e, f, o))
             => last'.res = "StaleEventError" /\ ~uaf']_vars

\* C19: a committed transaction stays committed; a begin_transaction on a
\* document without an open transaction creates a new, open transaction of
\* that document, which becomes the document's current one; an insert at
\* the end of the text earlier transactions left, called in an open
\* transaction, appends to that text ('hello' then ' world' at its length).
C19_LifeCycle ==
    /\ [][\A i \in 1..Len(txns) :
            txns[i].committed => i <= Len(txns') /\ txns'[i].committed]_vars
    /\ [][\A d \in Docs :
            (Begin(d) /\ callback[d] = 0 /\ OpenTxns(txns, d) = {})
               => LET n == Len(txns) + 1
                  IN  /\ Len(txns') = n
                      /\ txns'[n].doc = d /\ ~txns'[n].committed /\ txns'[n].commits = 0
                      /\ docTxn'[d] = n
                      /\ handles'[Len(handles')].inner = n
                      /\ ~handles'[Len(handles')].committed
                      /\ branches' = branches]_vars
    /\ [][\A h \in HandleIds, x \in {Str1, Str2} :
            (/\ SameDoc(h, 3) /\ ~txns[handles[h].inner].committed
             /\ TextInsert(h, 3, Len(branches[3].items), x, "None"))
               => /\ last'.res = "ok"
                  /\ branches'[3].items = Append(branches[3].items, Slot(0, "String", x.v))]_vars

\* Two transactions have committed, the first left the first chunk, the
\* second put the second chunk behind it.
C19_HelloWorld ==
    /\ Len(txns) = 2 /\ txns[1].commits = 1 /\ txns[2].commits = 1
    /\ ~txns[1].auto /\ ~txns[2].auto
    /\ branches[3].items = <<Slot(0, "String", 1), Slot(0, "String", 2)>>
    /\ branches[1].items = <<>>

\* C20: the open transaction of a document is the one the document
\* remembers; a read of an Integrated container of a document with an open
\* transaction opens and commits no transaction and returns the content
\* as the mutations so far left it; each mutation in an open transaction
\* shows in the content at once, where it was made.
C20_ReadYourWrites ==
    /\ [](\A d \in Docs : \A i \in OpenTxns(txns, d) : txns[i].rc > 0 => docTxn[d] = i)
    /\ [][\A c \in {1, 3} :
            (ToJson(c) /\ \E i \in OpenTxns(txns, ytypes[c].doc) : txns[i].rc > 0)
               => /\ txns' = txns /\ docTxn' = docTxn
                  /\ last'.res = "ok"
                  /\ last'.val = Countable(branches[ytypes[c].branch].items)]_vars
    /\ [][\A h \in HandleIds :
            (SameDoc(h, 1) /\ ~txns[handles[h].inner].committed)
               => /\ ArrayAppend(h, 1, Int1)
                       => Countable(branches'[1].items)
                            = Append(Countable(branches[1].items), Slot(0, "Number", 1))
                  /\ \A i \in 0..MaxLen, x \in {Str1, Str2} :
                       (i <= Len(branches[3].items) /\ TextInsert(h, 3, i, x, "None"))
                          => branches'[3].items
                               = InsertAt(branches[3].items, i, <<Slot(0, "String", x.v)>>)]_vars

\* A read returned two chunks in the order of their positions while the
\* only transaction there ever was is open with both pending.
C20_ReadUncommitted ==
    /\ Len(txns) = 1 /\ ~txns[1].committed /\ txns[1].pending
    /\ last.op = "read"
    /\ last.val = <<Slot(0, "String", 2), Slot(0, "String", 1)>>

\* C21: a read of a Preliminary object (its length, its content as a string
\* or as JSON, the lookup of a key it buffers, with or without a fallback)
\* succeeds, and opens, commits and changes no transaction of any document.
C21_PrelimReads ==
    [][\A c \in YTypeIds :
          (/\ c \in 1..Len(ytypes) /\ ytypes[c].prelim
           /\ \/ Read(c)
              \/ ToJson(c)
              \/ \E k \in Keys, item \in BOOLEAN :
                    /\ \E e \in 1..Len(ytypes[c].payload) : ytypes[c].payload[e].k = k
                    /\ MapGet(c, k, item))
             => /\ last'.res = "ok"
                /\ txns' = txns /\ docTxn' = docTxn]_vars

\* C22: a read of an Integrated container of a document without an open
\* transaction opens a transaction of that document that is committed (by
\* one engine commit) and released when the read returns: the document has
\* no open transaction, a root-type lookup passes its guard, and the
\* begin_transaction that follows gives a new, open transaction.
C22_ImplicitReadCommits ==
    /\ [][\A c \in YTypeIds \ {4} :
            (/\ Integrated(c) /\ ~has_transaction(txns, docTxn, ytypes[c].doc)
             /\ \/ Read(c)
                \/ ToJson(c)
                \/ \E k \in Keys, item \in BOOLEAN : MapGet(c, k, item))
               => LET d == ytypes[c].doc
                      n == Len(txns) + 1
                  IN  /\ Len(txns') = n
                      /\ txns'[n].doc = d /\ txns'[n].committed /\ txns'[n].commits = 1
                      /\ txns'[n].rc = 0 /\ ~txns'[n].pending
                      /\ OpenTxns(txns', d) = {}
                      /\ guard_store(txns', docTxn', d) = "ok"
                      /\ branches' = branches /\ handles' = handles]_vars
    /\ [][\A d \in Docs :
            (last.op = "read" /\ ~has_transaction(txns, docTxn, d) /\ Begin(d))
               => /\ last'.res = "ok"
                  /\ Len(txns') = Len(txns) + 1
                  /\ ~txns'[Len(txns')].committed
                  /\ has_transaction(txns', docTxn', d)]_vars

\* A read opened and committed the first transaction, and the
\* begin_transaction after it opened the second.
C22_BeginAfterRead ==
    /\ Len(txns) = 2 /\ Len(handles) = 1
    /\ txns[1].auto /\ txns[1].rc = 0 /\ txns[1].commits = 1
    /\ ~txns[2].committed /\ handles[1].inner = 2

\* The transactions whose engine commit runs in the step.
Committing(i) == i \in 1..Len(txns') /\ txns'[i].commits = 1 /\ (i <= Len(txns) => txns[i].commits = 0)

\* C23: the engine commit of a transaction, made by commit, by the end of a
\* with-block, by the release of the last reference or by a read, gives
\* each callback registered for its document exactly one new event, and
\* no step makes any other event; an event never changes, and its getters
\* return the objects made with it and read no engine transaction.
C23_AfterTransactionOnce ==
    /\ [][LET fresh == (Len(afterEvents) + 1)..Len(afterEvents')
          IN  /\ \A i \in 1..(Len(txns) + 1) :
                    Committing(i) =>
                       \A k \in 1..docObservers[txns'[i].doc] :
                          Cardinality({e \in fresh : /\ afterEvents'[e].txn = i
                                                     /\ afterEvents'[e].sub = k
                                                     /\ afterEvents'[e].doc = txns'[i].doc}) = 1
              /\ \A e \in fresh :
                    /\ Committing(afterEvents'[e].txn)
                    /\ afterEvents'[e].sub \in 1..docObservers[afterEvents'[e].doc]
                    /\ \A f \in AfterFields : afterEvents'[e].fields[f] # 0]_vars
    /\ [][\A e \in 1..Len(afterEvents) :
            e <= Len(afterEvents') /\ afterEvents'[e] = afterEvents[e]]_vars
    /\ [][\A e \in 1..Len(afterEvents), f \in AfterFields :
            AfterGet(e, f)
               => /\ txns[afterEvents[e].txn].committed
                  /\ last'.res = "ok" /\ last'.val = afterEvents[e].fields[f]
                  /\ uaf' = uaf /\ txns' = txns]_vars

\* A callback was given an event by an explicit commit and one by the
\* commit the release of a transaction makes, and a field was read later.
C23_BothCommitsObserved ==
    /\ last.op = "after"
    /\ \E e1, e2 \in 1..Len(afterEvents) :
          /\ afterEvents[e1].sub = afterEvents[e2].sub
          /\ txns[afterEvents[e1].txn].auto /\ ~txns[afterEvents[e2].txn].auto
    /\ ~uaf

\* C25: when transact returns, after a callback that returned, raised or
\* committed the transaction it was given, the transaction is committed,
\* the document has no open transaction, and what the callback returned or
\* raised is what transact returns or raises.
C25_TransactCommits ==
    [][\A d \in Docs, keep \in BOOLEAN :
          (callback[d] # 0 /\ TransactReturn(d, keep))
             => /\ last'.res = "ok"
                /\ txns'[handles[callback[d]].inner].committed
                /\ OpenTxns(txns', d) = {}
                /\ docTxn'[d] = 0]_vars

\* C26: after __exit__ the transaction of the handle is committed, by one
\* engine commit; the exit opens no transaction, and a document that had no
\* open transaction but the one of the handle has none; when the body
\* raised, an exception leaves the with-block.
C26_ExitCommits ==
    [][\A h \in HandleIds, raised \in BOOLEAN :
          (Alive(h) /\ Exit(h, raised))
             => LET i == handles[h].inner
                    d == txns[i].doc
                IN  /\ txns'[i].committed /\ txns'[i].commits = 1
                    /\ ~txns'[i].pending
                    /\ OpenTxns(txns', d) = OpenTxns(txns, d) \ {i}
                    /\ OpenTxns(txns, d) \subseteq {i} => ~has_transaction(txns', docTxn', d)
                    /\ raised => last'.res # "ok"
                    /\ (~raised /\ ~txns[i].committed) => last'.res = "ok"]_vars

\* The body of a with-block appended to the root array and raised; the
\* exit committed the transaction and the exception went on.
C26_RaisedAndCommitted ==
    /\ last = Call("reraised", "")
    /\ Len(txns) = 1 /\ txns[1].committed /\ ~txns[1].auto /\ txns[1].rc > 0
    /\ branches[1].items # <<>>

\* C27: a begin_transaction on a document that has an open transaction
\* raises an exception and hands out no transaction.
C27_SecondBeginRaises ==
    [][\A d \in Docs :
          (has_transaction(txns, docTxn, d) /\ callback[d] = 0 /\ Begin(d))
             => last'.res # "ok" /\ handles' = handles]_vars

\* C28: observe on a Preliminary array, map or text fails with
\* PreliminaryObservationException, not with a panic, and subscribes nothing.
C28_PrelimObserveRefused ==
    [][\A c \in YTypeIds :
          (c \in 1..Len(ytypes) /\ ytypes[c].prelim /\ Observe(c))
             => /\ last'.res = "PreliminaryObservationException"
                /\ observers' = observers]_vars

\* C29: an object becomes Integrated only in a step that made a new engine
\* container of its kind for it, put the slot of that container into an
\* older container, and replayed the whole payload into the new container,
\* slot by slot in the order of the payload; a Preliminary object of the
\* payload has its own container, made after the parent's, in the slot of
\* its first occurrence. A container is left with an object that is still
\* Preliminary only by a call that panicked during the replay.
C29_ReplayThenIntegrated ==
    /\ [][\A c \in 1..Len(ytypes) :
            (ytypes[c].prelim /\ ~ytypes'[c].prelim)
               => LET nb == ytypes'[c].branch
                      pl == ytypes[c].payload
                  IN  /\ nb > Len(branches) /\ nb <= Len(branches')
                      /\ branches'[nb].kind = ytypes[c].kind /\ branches'[nb].from = c
                      /\ \E b \in 1..(nb - 1) : \E p \in 1..Len(branches'[b].items) :
                            /\ branches'[b].items[p].t = "Type"
                            /\ branches'[b].items[p].v = nb
                      /\ Len(branches'[nb].items) = Len(pl)
                      /\ \A e \in 1..Len(pl) :
                            LET x == pl[e].val
                                slot == branches'[nb].items[e]
                            IN  IF Plain(x)
                                THEN slot = Slot(pl[e].k, AnyTryFrom(x).t, AnyTryFrom(x).v)
                                ELSE (/\ x.t = "YType" /\ ytypes[x.v].prelim
                                      /\ \A e2 \in 1..(e - 1) : pl[e2].val # x)
                                        => /\ slot.t = "Type" /\ slot.v > nb
                                           /\ branches'[slot.v].from = x.v
                                           /\ ~ytypes'[x.v].prelim
                                           /\ ytypes'[x.v].branch = slot.v]_vars
    /\ [][\A b \in (Len(branches) + 1)..Len(branches') :
            ytypes'[branches'[b].from].prelim => last'.res = "panic"]_vars

\* An object that buffered another object is Integrated in the root array,
\* and the object it buffered is Integrated in a container made after its.
C29_NestedIntegrated ==
    \E c1, c2 \in 1..Len(ytypes) :
        /\ c1 > Len(RootKinds) /\ c2 > Len(RootKinds) /\ c1 # c2
        /\ ~ytypes[c1].prelim /\ ~ytypes[c2].prelim
        /\ ytypes[c2].branch > ytypes[c1].branch
        /\ \E p \in 1..Len(branches[1].items) :
              branches[1].items[p] = Slot(0, "Type", ytypes[c1].branch)
        /\ branches[ytypes[c1].branch].items[1] = Slot(0, "Type", ytypes[c2].branch)

\* C30: in an insert_multiple_at into the root array of length L that
\* starts at an index up to L, for every list of scalars and shared type
\* objects, the index is at each point the start index plus the slots the
\* array has gained, and so never above the length of the array.
C30_IndexWithinLength ==
    \A i \in 0..MaxLen, r \in Ranges :
        (/\ i <= ArrLen(branches[1].items)
         /\ \A j \in 1..Len(r) : WellFormed(r[j], Len(ytypes)))
           => LET L == ArrLen(branches[1].items)
                  run == RunningIndexes(Store, 1, 1, i, r, 1, {1})
              IN  \A j \in 1..Len(run) :
                     /\ run[j].index = i + (run[j].len - L)
                     /\ run[j].index <= run[j].len


\* The elements of seq that are in S, in the order of seq.
Keep(seq, S) == SelectSeq(seq, LAMBDA id : id \in S)

Names(st) == {x.id : x \in st.items}

\* C24, as stated: apply_update(B, encode_state_as_update(A,
\* encode_state_vector(B))) makes the content of B equal to the content of
\* A, whatever the two documents inserted and deleted on their own.
C24_SyncMakesEqual ==
    [][\A a, b \in Docs : Sync(a, b) => Visible(blocks'[b]) = Visible(blocks[a])]_vars

\* C24, amended: apply_update(B, encode_state_as_update(A,
\* encode_state_vector(B))) leaves A alone and gives B every change A holds
\* while B keeps its own: the state vector of B covers both, the elements of
\* A stand in B in A's order but for those B deleted, the elements of B
\* stay in B's order but for those A deleted, and the content of B equals
\* the content of A when B held no change that A lacked.
C24_SyncMerges ==
    [][\A a, b \in Docs : Sync(a, b) =>
          LET A == blocks[a]
              B == blocks[b]
              B2 == blocks'[b]
          IN  /\ blocks'[a] = A
              /\ \A c \in Docs :
                    encode_state_vector(B2)[c] =
                        Max({encode_state_vector(A)[c], encode_state_vector(B)[c]})
              /\ Keep(Visible(B2), Names(A)) = Keep(Visible(A), Names(A) \ B.deleted)
              /\ Keep(Visible(B2), Names(B)) = Keep(Visible(B), Names(B) \ A.deleted)
              /\ (B.items \subseteq A.items /\ B.deleted \subseteq A.deleted)
                    => Visible(B2) = Visible(A)]_vars

\* Both documents inserted on their own, one deleted, and after the
\* exchange in both directions, the last one from 1 to 2, they show the
\* same elements.
C24_Converged ==
    /\ last = [op |-> "sync", res |-> "ok", err |-> "", val |-> <<1, 2>>]
    /\ \A d \in Docs : \E x \in blocks[2].items : x.id[1] = d
    /\ blocks[2].deleted # {}
    /\ Visible(blocks[2]) # <<>>
    /\ Visible(blocks[2]) = Visible(blocks[1])


\* Document d has an engine transaction that is not committed.
Open(d) == \E i \in 1..Len(txns) : txns[i].doc = d /\ ~txns[i].committed

\* C31: an operation of the document arbiter that opens an engine
\* transaction looks for an uncommitted one first and takes it: called while
\* one is open, it opens no other and is not refused by the engine.
C31_NeverOpensUnconditionally ==
    [][\A d \in Docs :
          (Open(d) /\ (Begin(d) \/ TransactCall(d) \/ Encode(d) \/ ApplyUpdate(d) \/ TransactMut(d)
                          \/ \E c \in YTypeIds : Integrated(c) /\ ytypes[c].doc = d /\ Read(c)))
             => /\ Len(txns') = Len(txns)
                /\ last'.res # "panic"]_vars


\* The shape the first matching check gives in the order boolean, integer,
\* float, string, binary blob, null, shared container, sequence, mapping.
ShapeInOrder(x) ==
    IF PyIsInstance(x, "Bool") THEN "Bool"
    ELSE IF PyIsInstance(x, "Int") THEN "Int"
    ELSE IF PyIsInstance(x, "Float") THEN "Float"
    ELSE IF PyIsInstance(x, "Str") THEN "String"
    ELSE IF PyIsInstance(x, "Bytes") THEN "Bytes"
    ELSE IF x.t = "None" THEN "None"
    ELSE IF x.t = "YType" THEN "YType"
    ELSE IF PyIsInstance(x, "List") THEN "List"
    ELSE IF PyIsInstance(x, "Dict") THEN "Dict"
    ELSE "Err"

\* C32: the classification of a value handed to insert is the shape of the
\* first matching check in the order boolean, integer, float, string,
\* binary blob, null, shared container, sequence, mapping: a boolean is no
\* integer, a binary blob is a scalar, a shared type object is no list and
\* no dict, and every other object is rejected.
C32_ClassifyInOrder ==
    [][\A h \in HandleIds, i \in 0..MaxLen, x \in HostValues :
          (SameDoc(h, 1) /\ ArrayInsert(h, 1, i, x))
             => CompatiblePyType(x) = ShapeInOrder(x)]_vars


\* The elements start..end of v in front of the element that stood at
\* target, the others in their order.
MovedRange(v, start, end, target) ==
    LET seg == SubSeq(v, start + 1, end + 1)
    IN  IF target < start
        THEN SubSeq(v, 1, target) \o seg \o SubSeq(v, target + 1, start)
                \o SubSeq(v, end + 2, Len(v))
        ELSE SubSeq(v, 1, start) \o SubSeq(v, end + 2, target) \o seg
                \o SubSeq(v, target + 1, Len(v))

\* C33: move_range_to on a Preliminary array of length n returns an index
\* error and leaves the payload alone when start or end addresses no
\* element, target > n or start > end; else it moves the elements
\* start..end in front of the element at target, a target within the range
\* moving nothing. It never panics.
C33_MoveRangePrelim ==
    [][\A h \in HandleIds, c \in YTypeIds, s \in 0..(MaxLen + 2), e \in 0..(MaxLen + 2),
          t \in 0..(MaxLen + 2), build \in Builds :
          (/\ Usable(h, c) /\ ytypes[c].prelim /\ ~txns[handles[h].inner].committed
           /\ ArrayMoveRange(h, c, s, e, t, build))
             => LET v == ytypes[c].payload
                    n == Len(v)
                IN  IF s >= n \/ e >= n \/ t > n \/ s > e
                    THEN last'.res = "IndexError" /\ ytypes'[c].payload = v
                    ELSE /\ last'.res = "ok"
                         /\ ytypes'[c].payload =
                               IF s <= t /\ t <= e THEN v ELSE MovedRange(v, s, e, t)]_vars


\* The shared type objects the payload of c holds, and those they hold.
Children(c) == {ytypes[c].payload[j].val.v :
                   j \in {i \in 1..Len(ytypes[c].payload) : ytypes[c].payload[i].val.t = "YType"}}

RECURSIVE Inside(_, _)
Inside(S, n) ==
    IF n = 0 THEN S
    ELSE Inside(S \cup UNION {Children(c) : c \in {x \in S : ytypes[x].prelim}}, n - 1)

SelfContained(c) == c \in Inside(Children(c), MaxYTypes)

\* C34: the insert of a Preliminary array or map returns for every payload,
\* one that holds the object itself or holds it through nested Preliminary
\* containers included: the call does not panic, the self-reference is
\* reported as an error, and the object is integrated at most once.
C34_SelfReferenceReported ==
    [][\A h \in HandleIds, i \in 0..MaxLen, x \in {P1, P2} :
          (/\ SameDoc(h, 1) /\ ~txns[handles[h].inner].committed
           /\ x.v \in 1..Len(ytypes) /\ ytypes[x.v].prelim
           /\ i <= ArrLen(branches[1].items)
           /\ ArrayInsert(h, 1, i, x))
             => /\ last'.res # "panic"
                /\ SelfContained(x.v) => (last'.res # "ok" \/ last'.err # "")
                /\ Cardinality({b \in 1..Len(branches') : branches'[b].from = x.v}) <= 1]_vars


\* C35: a read of an Integrated container of the document that a callback
\* makes during a commit (commit, end of a with-block, end of transact,
\* release) completes: it does not fail because the commit in progress
\* holds the transaction or the document.
C35_ReentrantReadCompletes == last.op = "callback" => last.read = "ok"


\* C36: encode_state_vector, encode_state_as_update and apply_update leave
\* the transaction state of the document as they found it. A call the host
\* refuses changes nothing; with a transaction open the call works in it,
\* opens no other and leaves it uncommitted with the references it had;
\* with none open the call opens one, which is committed when the call
\* returns. No handle and no other transaction changes.
C36_UpdateCallsKeepState ==
    [][\A d \in Docs :
          (Encode(d) \/ ApplyUpdate(d))
             => /\ has_transaction(txns', docTxn', d) = has_transaction(txns, docTxn, d)
                /\ handles' = handles
                /\ \A i \in 1..Len(txns) :
                      /\ txns'[i].committed = txns[i].committed
                      /\ txns'[i].rc = txns[i].rc
                      /\ txns'[i].commits = txns[i].commits
                /\ IF last'.res = "BorrowError"
                   THEN txns' = txns /\ docTxn' = docTxn
                   ELSE IF has_transaction(txns, docTxn, d)
                   THEN Len(txns') = Len(txns) /\ docTxn' = docTxn
                   ELSE /\ Len(txns') = Len(txns) + 1
                        /\ txns'[Len(txns')].doc = d
                        /\ txns'[Len(txns')].committed
                        /\ txns'[Len(txns')].commits = 1
                        /\ txns'[Len(txns')].rc = 0]_vars

\* An update was applied inside the open transaction of document 1, which
\* is still open, after an update was applied with none open.
C36_AppliedInOpenTransaction ==
    /\ Len(txns) = 2 /\ Len(handles) = 1 /\ Alive(1)
    /\ txns[1].committed /\ txns[1].auto /\ txns[1].doc = 1
    /\ handles[1].inner = 2 /\ ~txns[2].committed /\ txns[2].pending /\ txns[2].rc = 1
    /\ Len(branches[1].items) = 2


RECURSIVE PyRange(_, _, _)
PyRange(i, stop, step) ==
    IF (step > 0 /\ i >= stop) \/ (step < 0 /\ i <= stop) THEN <<>>
    ELSE <<i>> \o PyRange(i + step, stop, step)

\* The slice v[start:stop:step] of a plain list.
ListSlice(v, start, stop, step) ==
    LET ix == PySliceIndices(start, stop, step, Len(v))
        is == PyRange(ix.start, ix.stop, step)
    IN  [j \in 1..Len(is) |-> v[is[j] + 1]]

\* C38: array[start:stop:step] returns the list that the same slice of the
\* content as a plain list gives, for every start, stop and step other
\* than 0, of a Preliminary and of an Integrated array alike, and does not
\* panic.
C38_SliceAsList ==
    [][\A c \in YTypeIds, i \in Bounds, j \in Bounds, step \in Steps :
          ArraySlice(c, i, j, step)
             => /\ last'.res = "ok"
                /\ last'.val = ListSlice(NumbersOf(c), i, j, step)]_vars


\* What the call e leaves of array c: the result and the numbers held.
EditOf(c, e) ==
    LET s == CASE e.op = "insert" -> _insert(c, e.i, e.x)
               [] e.op = "append" -> _append(c, e.x)
               [] e.op = "insert_range" -> _insert_range(c, e.i, <<e.x, Int2>>)
               [] e.op = "extend" -> YArray_extend(c, <<Int1, e.x>>)
               [] e.op = "delete" -> _delete(c, e.i)
               [] e.op = "delete_range" -> _delete_range(c, e.i, e.j)
               [] e.op = "move_to" -> _move_to(c, e.i, e.j)
        held == Content(s.y, s.b, c)
    IN  [res |-> s.res, val |-> [n \in 1..Len(held) |-> held[n].v]]

\* A Preliminary and an Integrated array that hold the same numbers.
Twins(p, r) ==
    /\ Target(p, "Array") /\ Target(r, "Array")
    /\ ytypes[p].prelim /\ ~ytypes[r].prelim
    /\ NumbersOf(p) = NumbersOf(r)

\* C39: a call of insert, insert_range, append, extend, delete,
\* delete_range or move_to on a Preliminary array returns the outcome and
\* leaves the content that the same call with the same arguments returns
\* and leaves on an Integrated array of equal content.
C39_SameEdits ==
    [][\A h \in HandleIds, p \in YTypeIds, r \in YTypeIds, e \in EditCalls :
          (/\ Usable(h, p) /\ Usable(h, r) /\ ~txns[handles[h].inner].committed
           /\ Twins(p, r) /\ Edit(h, p, e))
             => /\ last'.res = EditOf(r, e).res
                /\ NumbersOf(p)' = EditOf(r, e).val]_vars


\* C40: a map iterator over an Integrated map is only advanced while the
\* transaction it was created under is open: neither committed nor
\* released.
C40_IteratorReadsOpenTxn ==
    [][\A i \in 1..MaxIters, outcome \in {"ok", "crash"} :
          MapIterNext(i, outcome) => TxnOpen(txns, iters[i].txn)]_vars

====
